---- MODULE Spec2Model ----
(***************************************************************************)
(* CourseArchitectAI: the slide analysis and pacing engine (PptxAnalyzer)  *)
(* and the batch orchestration of the AI engine (AIEngine.analyze_batch).  *)
(*                                                                         *)
(* Text is modelled at word level: a line is a sequence of words, a note   *)
(* is a sequence of lines.  The regular expressions of the source are      *)
(* translated to operators over such sequences; what a word contains       *)
(* (keywords, leading digits, its lower-case form, its length) is read     *)
(* from the lexicon below, one entry per word used in the decks.           *)
(*                                                                         *)
(* Minutes are kept exactly, in units of 1/130 minute (TimeUnit), so that  *)
(* word_count / 130 is an integer number of units.                         *)
(***************************************************************************)
EXTENDS Integers, Sequences, FiniteSets, TLC

(***************************************************************************)
(* Bounds of the model.                                                    *)
(***************************************************************************)
MaxSlides == 3

MaxBatch == 3

MaxSlidesTwo == 1

\* the longest deck of the pacing runs
MaxPacingSlides == 3

(***************************************************************************)
(* Program constants.                                                      *)
(***************************************************************************)
\* word_count / 130 (analyzer.py line 228): one minute is 130 units of time
TimeUnit == 130

\* max(0.5, ...) of the same line: half a minute
HalfMinute == 65

BUFFER_ACTIVITY_SLIDE == 650

BODY_FONT_SIZE_MIN == 25

WCAG_MIN_GRAPHIC_RATIO == 30

WCAG_RATIO_NORMAL == 45

WCAG_RATIO_LARGE == 30

WCAG_MIN_LARGE_FONT_SIZE == 18

TITLE_FONT_NAME == "Rockwell"

BODY_FONT_NAME == "Calibri"

BG_IS_IMAGE == <<-1>>

BG_IS_TABLE == <<-2>>

WHITE_RGB_TUPLE == <<255, 255, 255>>

BLACK_RGB_TUPLE == <<0, 0, 0>>

(***************************************************************************)
(* The lexicon: str.lower(), len() and the keywords a word contains.       *)
(***************************************************************************)
LowerMap ==
    ("Activity:" :> "activity:") @@ ("Instructional" :> "instructional") @@
    ("Time:" :> "time:") @@ ("Duration:" :> "duration:") @@
    ("Lab" :> "lab") @@ ("LAB" :> "lab") @@
    ("Elicit" :> "elicit") @@ ("Performance" :> "performance") @@
    ("Present" :> "present") @@ ("Content" :> "content") @@
    ("Knowledge" :> "knowledge") @@ ("Check" :> "check") @@
    ("Welcome" :> "welcome") @@ ("Basics" :> "basics") @@
    ("Section" :> "section") @@ ("Header" :> "header") @@
    ("Title" :> "title") @@ ("Slide" :> "slide") @@
    ("Gagne" :> "gagne") @@ ("Gagné" :> "gagné") @@ ("Event:" :> "event:") @@
    ("Say:" :> "say:") @@ ("Latest" :> "latest") @@ ("Results" :> "results")

Lower(w) == IF w \in DOMAIN LowerMap THEN LowerMap[w] ELSE w

LenMap ==
    ("activity:" :> 9) @@ ("instructional" :> 13) @@ ("time:" :> 5) @@
    ("duration:" :> 9) @@ ("lab" :> 3) @@ ("intro" :> 5) @@
    ("elicit" :> 6) @@ ("performance" :> 11) @@ ("present" :> 7) @@
    ("content" :> 7) @@ ("knowledge" :> 9) @@ ("check" :> 5) @@
    ("welcome" :> 7) @@ ("basics" :> 6) @@ ("section" :> 7) @@
    ("header" :> 6) @@ ("title" :> 5) @@ ("slide" :> 5) @@
    ("gagne" :> 5) @@ ("gagné" :> 5) @@ ("event:" :> 6) @@ ("say:" :> 4) @@
    ("latest" :> 6) @@ ("results" :> 7) @@
    ("-" :> 1) @@ ("group" :> 5) @@ ("exercise" :> 8) @@ ("and" :> 3) @@
    ("the" :> 3) @@ ("quiz" :> 4) @@ ("1.1.1" :> 5) @@
    ("0" :> 1) @@ ("1" :> 1) @@ ("2" :> 1) @@ ("10" :> 2) @@ ("30" :> 2) @@
    ("hour" :> 4) @@ ("minutes" :> 7) @@ ("ten" :> 3) @@
    ("hi" :> 2)

WordLen(w) == LenMap[Lower(w)]

\* the keywords of the classifier's patterns that occur inside a lower-case word
KeywordMap ==
    ("activity:" :> {"activity"}) @@ ("elicit" :> {"elicit"}) @@
    ("performance" :> {"performance"}) @@ ("present" :> {"present"}) @@
    ("content" :> {"content"}) @@ ("knowledge" :> {"knowledge"}) @@
    ("check" :> {"check"}) @@ ("welcome" :> {"welcome"}) @@
    ("exercise" :> {"exercise"}) @@ ("group" :> {"group"}) @@
    ("quiz" :> {"quiz"}) @@ ("latest" :> {"test"}) @@
    ("section" :> {"section"})

Keywords(w) == IF w \in DOMAIN KeywordMap THEN KeywordMap[w] ELSE {}

\* int() of the leading digits of a word, -1 when it does not start with a digit
DigitsMap ==
    ("0" :> 0) @@ ("1" :> 1) @@ ("2" :> 2) @@ ("10" :> 10) @@ ("30" :> 30) @@
    ("1.1.1" :> 1)

LeadingInt(w) == IF w \in DOMAIN DigitsMap THEN DigitsMap[w] ELSE -1

LowerLine(line) == [k \in 1..Len(line) |-> Lower(line[k])]

LowerText(text) == [k \in 1..Len(text) |-> LowerLine(text[k])]

RECURSIVE SumLen(_, _)
SumLen(line, k) == IF k = 0 THEN 0 ELSE WordLen(line[k]) + SumLen(line, k - 1)

\* len(line): the words and one blank between two words
LineLen(line) == IF Len(line) = 0 THEN 0 ELSE SumLen(line, Len(line)) + Len(line) - 1

RECURSIVE WordCount(_, _)
WordCount(text, k) == IF k = 0 THEN 0 ELSE Len(text[k]) + WordCount(text, k - 1)

\* the text as one sequence of words, "\n" between two lines
RECURSIVE Flatten(_, _)
Flatten(text, k) ==
    IF k = 0 THEN <<>>
    ELSE IF k = 1 THEN text[1]
    ELSE Flatten(text, k - 1) \o <<"\n">> \o text[k]

Min(S) == CHOOSE x \in S : \A y \in S : x <= y

Max(S) == CHOOSE x \in S : \A y \in S : x >= y

(***************************************************************************)
(* re.search over a line: a one-word keyword, or two keywords in adjacent  *)
(* words (the pattern a\s*b).                                              *)
(***************************************************************************)
HasWord(line, kw) == \E k \in 1..Len(line) : kw \in Keywords(line[k])

HasPair(line, kw1, kw2) ==
    \E k \in 1..(Len(line) - 1) :
        kw1 \in Keywords(line[k]) /\ kw2 \in Keywords(line[k + 1])

(***************************************************************************)
(* PptxAnalyzer._map_gagne_event and _check_event_keywords.                *)
(***************************************************************************)
GagneEvents ==
    {"Gain Attention", "Inform Objectives", "Stimulate Recall",
     "Present Content", "Provide Guidance", "Elicit Performance",
     "Provide Feedback", "Assess Performance", "Enhance Retention"}

GagneBuckets == GagneEvents \cup {"Other"}

\* the one-word alternatives of the nine patterns of lines 163-171
EventWords ==
    [e \in GagneEvents |->
        CASE e = "Gain Attention" -> {"hook", "welcome"}
          [] e = "Inform Objectives" ->
                {"objective", "outcome", "goal", "agenda", "direction",
                 "overview", "roadmap"}
          [] e = "Stimulate Recall" -> {"recall", "review", "refresh", "remind"}
          [] e = "Present Content" ->
                {"presentation", "lecture", "explain", "demonstrate", "show",
                 "teach", "concept"}
          [] e = "Provide Guidance" ->
                {"guidance", "scaffold", "support", "coach", "help", "tip"}
          [] e = "Elicit Performance" ->
                {"practice", "exercise", "simulation", "worksheet"}
          [] e = "Provide Feedback" ->
                {"feedback", "debrief", "correct", "discussion"}
          [] e = "Assess Performance" ->
                {"assessment", "quiz", "test", "check", "evaluate"}
          [] e = "Enhance Retention" ->
                {"retention", "transfer", "summary", "conclusion", "close",
                 "takeaway"}]

\* the two-word alternatives (a\s*b) of the same patterns
EventPairs ==
    [e \in GagneEvents |->
        CASE e = "Gain Attention" ->
                {<<"gain", "attention">>, <<"ice", "breaker">>, <<"warm", "up">>}
          [] e = "Inform Objectives" -> {<<"inform", "objectives">>}
          [] e = "Stimulate Recall" ->
                {<<"stimulate", "recall">>, <<"prior", "knowledge">>}
          [] e = "Present Content" -> {<<"present", "content">>}
          [] e = "Provide Guidance" ->
                {<<"provide", "guidance">>, <<"guided", "learning">>}
          [] e = "Elicit Performance" ->
                {<<"elicit", "performance">>, <<"group", "activity">>,
                 <<"learner", "activity">>, <<"role", "play">>,
                 <<"hands", "on">>}
          [] e = "Provide Feedback" ->
                {<<"provide", "feedback">>, <<"review", "answer">>}
          [] e = "Assess Performance" ->
                {<<"assess", "performance">>, <<"knowledge", "check">>}
          [] e = "Enhance Retention" ->
                {<<"enhance", "retention">>, <<"wrap", "up">>, <<"job", "aid">>}]

\* the name of each event as the pair of words _check_event_keywords looks for
EventNamePair ==
    [e \in GagneEvents |->
        CASE e = "Gain Attention" -> <<"gain", "attention">>
          [] e = "Inform Objectives" -> <<"inform", "objectives">>
          [] e = "Stimulate Recall" -> <<"stimulate", "recall">>
          [] e = "Present Content" -> <<"present", "content">>
          [] e = "Provide Guidance" -> <<"provide", "guidance">>
          [] e = "Elicit Performance" -> <<"elicit", "performance">>
          [] e = "Provide Feedback" -> <<"provide", "feedback">>
          [] e = "Assess Performance" -> <<"assess", "performance">>
          [] e = "Enhance Retention" -> <<"enhance", "retention">>]

LineMatchesEvent(line, e) ==
    \/ \E kw \in EventWords[e] : HasWord(line, kw)
    \/ \E p \in EventPairs[e] : HasPair(line, p[1], p[2])

_check_event_keywords(line) ==
    LET t == LowerLine(line)
    IN  \E e \in GagneEvents : HasPair(t, EventNamePair[e][1], EventNamePair[e][2])

\* re.search(r'knowledge\s*check|quiz|test|assessment|exam', title_lower)
TitleIsAssessment(title_lower) ==
    \/ HasPair(title_lower, "knowledge", "check")
    \/ \E kw \in {"quiz", "test", "assessment", "exam"} : HasWord(title_lower, kw)

\* re.match(r'(?:instructional\s+)?(?:activity|gagne\s*event)\s*:', line, re.I)
StrictHeaderAt(l, k) ==
    \/ Len(l) >= k /\ l[k] = "activity:"
    \/ Len(l) >= k + 1 /\ l[k] = "gagne" /\ l[k + 1] = "event:"

IsStrictHeader(line) ==
    LET l == LowerLine(line)
    IN  \/ StrictHeaderAt(l, 1)
        \/ Len(l) >= 1 /\ l[1] = "instructional" /\ StrictHeaderAt(l, 2)

\* the line the notes-based classification reads: the first strict header,
\* else the first short line that names an event, else nothing
TargetLine(text) ==
    LET strict == {k \in 1..Len(text) : IsStrictHeader(text[k])}
        short  == {k \in 1..Len(text) :
                      /\ LineLen(text[k]) < 100
                      /\ LineLen(text[k]) > 3
                      /\ _check_event_keywords(text[k])}
    IN  IF strict # {} THEN LowerLine(text[Min(strict)])
        ELSE IF short # {} THEN LowerLine(text[Min(short)])
        ELSE <<>>

\* a faulty variant of _map_gagne_event: the title is read only when the
\* notes name no event
_map_gagne_event_NotesFirst(text, slide_title) ==
    LET fromNotes == IF TargetLine(text) # <<>>
                     THEN {e \in GagneEvents : LineMatchesEvent(TargetLine(text), e)}
                     ELSE {}
    IN  IF fromNotes # {} THEN fromNotes
        ELSE IF TitleIsAssessment(LowerLine(slide_title))
        THEN {"Assess Performance"} ELSE {}

_map_gagne_event(text, slide_title) ==
    LET title_lower   == LowerLine(slide_title)
        analysis_text == TargetLine(text)
        fromTitle     == IF TitleIsAssessment(title_lower)
                         THEN {"Assess Performance"} ELSE {}
        fromNotes     == IF analysis_text # <<>>
                         THEN {e \in GagneEvents : LineMatchesEvent(analysis_text, e)}
                         ELSE {}
    IN  fromTitle \cup fromNotes

(***************************************************************************)
(* The two searches of the pacing pass over notes.lower().                 *)
(***************************************************************************)
\* the next word after position k that is not a line break, 0 when none
NextWord(flat, k) ==
    LET after == {m \in (k + 1)..Len(flat) : flat[m] # "\n"}
    IN  IF after = {} THEN 0 ELSE Min(after)

\* re.search(r'(?:time|duration):\s*(\d+)', notes.lower()), int(group(1)) or 0
ExplicitTime(notes) ==
    LET flat == Flatten(LowerText(notes), Len(notes))
        hits == {k \in 1..Len(flat) :
                    /\ flat[k] \in {"time:", "duration:"}
                    /\ NextWord(flat, k) # 0
                    /\ LeadingInt(flat[NextWord(flat, k)]) >= 0}
    IN  IF hits = {} THEN 0 ELSE LeadingInt(flat[NextWord(flat, Min(hits))])

\* re.search(r'activity:\s*([^\n]+)', notes.lower()): the words from the first
\* word after "activity:" to the end of that word's line, <<>> when no match
CurrentActivity(notes) ==
    LET flat == Flatten(LowerText(notes), Len(notes))
        hits == {k \in 1..Len(flat) : flat[k] = "activity:" /\ NextWord(flat, k) # 0}
    IN  IF hits = {} THEN <<>>
        ELSE LET first == NextWord(flat, Min(hits))
                 stops == {m \in first..Len(flat) : flat[m] = "\n"}
                 last  == IF stops = {} THEN Len(flat) ELSE Min(stops) - 1
             IN  SubSeq(flat, first, last)

(***************************************************************************)
(* Colours: utils.rgb_pptx_to_tuple and the WCAG contrast of utils.py.     *)
(* Luminance is kept in units of 1/10000, from a table of linearize_rgb    *)
(* over the 256 values of a channel.                                       *)
(***************************************************************************)
HexMap ==
    ("000000" :> <<0, 0, 0>>) @@ ("FFFFFF" :> <<255, 255, 255>>) @@
    ("777777" :> <<119, 119, 119>>) @@ ("4481AC" :> <<68, 129, 172>>) @@
    ("C80000" :> <<200, 0, 0>>) @@ ("D9D9D9" :> <<217, 217, 217>>)

rgb_pptx_to_tuple(rgb_val) ==
    IF rgb_val \in DOMAIN HexMap THEN HexMap[rgb_val] ELSE <<0, 0, 0>>

\* linearize_rgb(c / 255) in units of 1/100000, for each channel value c
\* (entry c + 1)
linearize_rgb ==
    <<
      0, 30, 61, 91, 121, 152, 182, 212, 243, 273, 304, 335,
      368, 402, 439, 478, 518, 561, 605, 651, 700, 750, 802, 857,
      913, 972, 1033, 1096, 1161, 1229, 1298, 1370, 1444, 1521, 1600, 1681,
      1764, 1850, 1938, 2029, 2122, 2217, 2315, 2416, 2519, 2624, 2732, 2843,
      2956, 3071, 3190, 3310, 3434, 3560, 3689, 3820, 3955, 4092, 4231, 4374,
      4519, 4667, 4817, 4971, 5127, 5286, 5448, 5613, 5781, 5951, 6125, 6301,
      6480, 6663, 6848, 7036, 7227, 7421, 7619, 7819, 8022, 8228, 8438, 8650,
      8866, 9084, 9306, 9531, 9759, 9990, 10224, 10462, 10702, 10946, 11193, 11444,
      11697, 11954, 12214, 12477, 12744, 13014, 13287, 13563, 13843, 14126, 14413, 14703,
      14996, 15293, 15593, 15896, 16203, 16513, 16827, 17144, 17465, 17789, 18116, 18447,
      18782, 19120, 19462, 19807, 20156, 20508, 20864, 21223, 21586, 21953, 22323, 22697,
      23074, 23455, 23840, 24228, 24620, 25016, 25415, 25818, 26225, 26636, 27050, 27468,
      27889, 28315, 28744, 29177, 29614, 30054, 30499, 30947, 31399, 31855, 32314, 32778,
      33245, 33716, 34191, 34670, 35153, 35640, 36131, 36625, 37124, 37626, 38133, 38643,
      39157, 39676, 40198, 40724, 41254, 41789, 42327, 42869, 43415, 43966, 44520, 45079,
      45641, 46208, 46778, 47353, 47932, 48515, 49102, 49693, 50289, 50888, 51492, 52100,
      52712, 53328, 53948, 54572, 55201, 55834, 56471, 57112, 57758, 58408, 59062, 59720,
      60383, 61050, 61721, 62396, 63076, 63760, 64448, 65141, 65837, 66539, 67244, 67954,
      68669, 69387, 70110, 70838, 71569, 72306, 73046, 73791, 74540, 75294, 76052, 76815,
      77582, 78354, 79130, 79910, 80695, 81485, 82279, 83077, 83880, 84687, 85499, 86316,
      87137, 87962, 88792, 89627, 90466, 91310, 92158, 93011, 93869, 94731, 95597, 96469,
      97345, 98225, 99110, 100000
    >>

\* in units of 1/10000
get_relative_luminance(rgb) ==
    (2126 * linearize_rgb[rgb[1] + 1] + 7152 * linearize_rgb[rgb[2] + 1]
        + 722 * linearize_rgb[rgb[3] + 1] + 50000) \div 100000

\* ratio < required, both sides multiplied by 10 * (min + 0.05)
ContrastBelow(rgb1, rgb2, required10) ==
    LET l1 == get_relative_luminance(rgb1)
        l2 == get_relative_luminance(rgb2)
        hi == IF l1 >= l2 THEN l1 ELSE l2
        lo == IF l1 >= l2 THEN l2 ELSE l1
    IN  (hi + 500) * 10 < required10 * (lo + 500)

\* the ratio in tenths, as the "{ratio:.1f}" of the issue text shows it
RatioTenths(rgb1, rgb2) ==
    LET l1 == get_relative_luminance(rgb1)
        l2 == get_relative_luminance(rgb2)
        hi == IF l1 >= l2 THEN l1 ELSE l2
        lo == IF l1 >= l2 THEN l2 ELSE l1
    IN  (((hi + 500) * 100) \div (lo + 500) + 5) \div 10

\* utils.py 58-69: int(channel * factor) clamped to 0..255, the factor in
\* hundredths; int(c * 0.95) and int(c * 1.05) are c * 95 \div 100 and
\* c * 105 \div 100 for every c in 0..255
adjust_color_brightness(rgb, factor100) ==
    [k \in 1..3 |-> Max({0, Min({255, (rgb[k] * factor100) \div 100})})]

BRAND_COLORS_RGB ==
    {<<0, 0, 0>>, <<255, 255, 255>>, <<68, 129, 172>>, <<255, 145, 77>>,
     <<217, 217, 217>>, <<248, 215, 194>>, <<188, 221, 244>>,
     <<254, 229, 153>>, <<47, 84, 150>>, <<111, 59, 85>>}

is_brand_color(rgb) == rgb \in BRAND_COLORS_RGB

is_large_text(run) ==
    (run.size >= WCAG_MIN_LARGE_FONT_SIZE /\ run.bold = "True") \/ run.size >= 24

get_required_ratio(run) ==
    IF is_large_text(run) THEN WCAG_RATIO_LARGE ELSE WCAG_RATIO_NORMAL

shapes_overlap(s1, s2) ==
    /\ s1.left < s2.left + s2.width
    /\ s1.left + s1.width > s2.left
    /\ s1.top < s2.top + s2.height
    /\ s1.top + s1.height > s2.top

(***************************************************************************)
(* The decks.  A shape carries what the analyzer reads from python-pptx:   *)
(* id, name, placeholder type, shape type, geometry, fill, the runs of its *)
(* text frame and its alt text.                                            *)
(* font_name "" , size 0, bold "None" and color "" stand for None.         *)
(* A fill carries its type, fore_color.rgb, and what reading fill.visible  *)
(* and fore_color.alpha gives: a value, or "AttributeError" when the       *)
(* object has no such attribute (the analyzer catches that exception).     *)
(***************************************************************************)
NoFill == [type |-> "NONE", rgb |-> "", visible |-> "True", alpha |-> "None"]

Solid(hex, visible, alpha) ==
    [type |-> "SOLID", rgb |-> hex, visible |-> visible, alpha |-> alpha]

PictureFill == [type |-> "PICTURE", rgb |-> "", visible |-> "True", alpha |-> "None"]

Run(words, font, size, bold, color) ==
    [text |-> words, font_name |-> font, size |-> size, bold |-> bold, color |-> color]

TitleShape(id, words, top, font) ==
    [shape_id |-> id, name |-> "Title", ph_type |-> "TITLE",
     shape_type |-> "PLACEHOLDER", left |-> 0, top |-> top, width |-> 10,
     height |-> 2, fill |-> NoFill, runs |-> <<Run(words, font, 40, "None", "")>>,
     descr |-> ""]

BodyShape(id, words, font, size, color) ==
    [shape_id |-> id, name |-> "Content", ph_type |-> "BODY",
     shape_type |-> "PLACEHOLDER", left |-> 0, top |-> 3, width |-> 10,
     height |-> 4, fill |-> NoFill, runs |-> <<Run(words, font, size, "None", color)>>,
     descr |-> ""]

\* a body placeholder whose text is two runs, both too small
TwoRunBody(id) ==
    [shape_id |-> id, name |-> "Content", ph_type |-> "BODY",
     shape_type |-> "PLACEHOLDER", left |-> 0, top |-> 3, width |-> 10,
     height |-> 4, fill |-> NoFill,
     runs |-> <<Run(<<"intro">>, "Arial", 10, "None", ""),
                Run(<<"and", "the", "lab">>, "Arial", 10, "None", "")>>,
     descr |-> ""]

PictureShape(id, descr) ==
    [shape_id |-> id, name |-> "Picture", ph_type |-> "NONE",
     shape_type |-> "PICTURE", left |-> 0, top |-> 3, width |-> 4,
     height |-> 4, fill |-> NoFill, runs |-> <<>>, descr |-> descr]

\* a rectangle with a fill and no text, placed under the body area
Backdrop(id, fill) ==
    [shape_id |-> id, name |-> "Backdrop", ph_type |-> "NONE",
     shape_type |-> "AUTO_SHAPE", left |-> 0, top |-> 3, width |-> 10,
     height |-> 5, fill |-> fill, runs |-> <<>>, descr |-> ""]

\* a shape without text: an auto shape or a table, under the body area
\* (top 3) or away from it
Block(id, shape_type, top, fill) ==
    [shape_id |-> id, name |-> "Block", ph_type |-> "NONE",
     shape_type |-> shape_type, left |-> 0, top |-> top, width |-> 10,
     height |-> 5, fill |-> fill, runs |-> <<>>, descr |-> ""]

TextBox(id, runs, top) ==
    [shape_id |-> id, name |-> "TextBox", ph_type |-> "NONE",
     shape_type |-> "TEXT_BOX", left |-> 1, top |-> top, width |-> 5,
     height |-> 2, fill |-> NoFill, runs |-> runs, descr |-> ""]

NotesFontOk == [font_name |-> "Calibri", size |-> 12, color |-> "000000"]

Slide(layout, shapes, notes) ==
    [layout |-> layout, shapes |-> shapes, notes |-> notes, notes_font |-> NotesFontOk]

\* body text in 10pt, two runs; notes "Time: 2 / Activity: intro"
SlideSmallFont ==
    Slide(<<"Title", "and", "Content">>,
          <<TitleShape(1, <<"Basics">>, 0, ""), TwoRunBody(2)>>,
          << <<"Time:", "2">>, <<"Activity:", "intro">> >>)

\* picture without alt text, text over a picture-filled shape; notes "Activity: Lab"
SlideImage ==
    Slide(<<"Title", "and", "Content">>,
          <<TitleShape(1, <<"Basics">>, 0, ""), Backdrop(2, PictureFill),
            PictureShape(3, ""),
            TextBox(4, <<Run(<<"the", "lab">>, "Calibri", 28, "None", ""),
                         Run(<<"intro">>, "Calibri", 28, "None", "")>>, 4)>>,
          << <<"Activity:", "Lab">> >>)

\* a quiz by its title, without notes; light grey text on white
SlideLowContrast ==
    Slide(<<"Title", "and", "Content">>,
          <<TitleShape(1, <<"Knowledge", "Check">>, 0, ""),
            BodyShape(2, <<"the", "lab">>, "Calibri", 28, "D9D9D9")>>, <<>>)

\* a section header without a title placeholder and with a long text on
\* screen; its notes continue the lab
SlideSection ==
    Slide(<<"Section", "Header">>,
          <<BodyShape(1, [k \in 1..70 |-> "the"], "Calibri", 28, "")>>,
          << <<"Activity:", "LAB">> >>)

\* a numbered heading, wrong title font, complete note headers
SlideNumbered ==
    Slide(<<"Title", "and", "Content">>,
          <<TitleShape(1, <<"1.1.1", "Basics">>, 0, "Arial")>>,
          << <<"Instructional", "Activity:", "Elicit", "Performance", "-",
               "group", "exercise">>,
             <<"Instructional", "Time:", "0">> >>)

\* a quiz by its title, notes naming another event; an object over the title
SlideQuiz ==
    Slide(<<"Title", "and", "Content">>,
          <<TitleShape(1, <<"Knowledge", "Check">>, 0, ""),
            TextBox(2, <<Run(<<"quiz">>, "Calibri", 28, "None", "")>>, 1)>>,
          << <<"Instructional", "Activity:", "Present", "Content">>,
             <<"Instructional", "Time:", "ten">> >>)

\* nothing to report; the notes fund the lab with ten minutes
SlideFunding ==
    Slide(<<"Title", "and", "Content">>,
          <<TitleShape(1, <<"Basics">>, 0, ""),
            BodyShape(2, <<"the", "lab">>, "Calibri", 28, "000000")>>,
          << <<"Instructional", "Activity:", "lab">>,
             <<"Instructional", "Time:", "10">> >>)

\* a slide of text only: a title, a body without findings, and notes
TextSlide(title, body, notes) ==
    Slide(<<"Title", "and", "Content">>,
          <<TitleShape(1, title, 0, ""), BodyShape(2, body, "Calibri", 28, "000000")>>,
          notes)

\* the notes the classifier is run on, each on a slide of its own; the
\* last but two begin with a line of more than 100 characters
ClassifierNotes ==
    {<< <<"Instructional", "Activity:", "Elicit", "Performance", "-", "group", "exercise">> >>,
     << <<"Present", "Content">>, <<"Instructional", "Activity:", "Elicit", "Performance">> >>,
     << <<"Instructional", "Activity:", "Elicit", "Performance">>, <<"Present", "Content", "quiz">> >>,
     << <<"Present", "Content">>, <<"Gagne", "Event:", "Elicit", "Performance">> >>,
     << <<"Present", "Content">>, <<"Gagné", "Event:", "Elicit", "Performance">> >>,
     << <<"Activity:", "Lab">>, <<"Instructional", "Activity:", "Elicit", "Performance">> >>,
     << <<"Welcome">>, <<"Present", "Content", "quiz">>, <<"Elicit", "Performance">> >>,
     << <<"Present", "Content">> \o [k \in 1..10 |-> "Performance"],
        <<"Elicit", "Performance">> >>,
     << <<"Welcome">>, <<"the", "lab">> >>,
     << >>}

\* the slides of the pacing runs: the funding slide, the section header and
\* the slide that continues the lab; two slides without notes, of 2 and of
\* 70 words; a slide of another activity without a time; a time without an
\* activity; a time with units; a numbered heading with a time of its own
PacingSlides ==
    {SlideFunding, SlideSection, SlideImage,
     TextSlide(<<"Basics">>, <<"the", "lab">>, <<>>),
     TextSlide(<<"Basics">>, <<"the", "lab">>, << <<"Activity:", "intro">> >>),
     TextSlide(<<"Basics">>, <<"the", "lab">>, << <<"Time:", "2">> >>),
     TextSlide(<<"Basics">>, [k \in 1..70 |-> "the"], <<>>),
     TextSlide(<<"Basics">>, <<"the", "lab">>,
               << <<"Time:", "1", "hour", "30", "minutes">>, <<"Activity:", "lab">> >>),
     TextSlide(<<"1.1.1", "Basics">>, <<"the", "lab">>,
               << <<"Activity:", "lab">>, <<"Time:", "2">> >>)}

\* slides for the background of a shape: a text box over the body area,
\* two shapes before it and one after it in document order, each under the
\* body area or away from it, a table or an auto shape with one of the fills
ShapeSlides ==
    LET fills  == {NoFill, PictureFill, Solid("4481AC", "True", "None"),
                   Solid("C80000", "True", "1.0"), Solid("777777", "True", "0.5"),
                   Solid("D9D9D9", "False", "None"),
                   Solid("C80000", "AttributeError", "AttributeError")}
        blocks(id) == {Block(id, "AUTO_SHAPE", 3, f) : f \in fills}
                         \cup {Block(id, "AUTO_SHAPE", 20, Solid("4481AC", "True", "None")),
                               Block(id, "TABLE", 3, NoFill)}
        text   == TextBox(4, <<Run(<<"the", "lab">>, "Calibri", 28, "None", "")>>, 4)
    IN  {Slide(<<"Title", "and", "Content">>,
               <<TitleShape(1, <<"Basics">>, 0, ""), x, y, text, z>>, <<>>) :
            x \in blocks(2), y \in blocks(3), z \in blocks(5)}

\* the decks of the case runs: one classifier slide under a neutral or a
\* quiz title, with 2 words on screen or 700 (more than the activity buffer
\* reads), one slide of shapes, a slide with a second title placeholder
\* lower down in another font, or up to MaxPacingSlides pacing slides
CaseDecks ==
    {<<s>> : s \in ShapeSlides} \cup
    {<<Slide(<<"Title", "and", "Content">>,
             <<TitleShape(1, <<"Basics">>, 0, ""),
               [TitleShape(2, <<"Basics">>, 5, "Arial") EXCEPT !.name = "Title 2"]>>,
             <<>>)>>} \cup
    {<<TextSlide(title, body, notes)>> :
        title \in {<<"Basics">>, <<"Knowledge", "Check">>},
        body \in {<<"the", "lab">>, [k \in 1..700 |-> "the"]},
        notes \in ClassifierNotes}
        \cup UNION {[1..n -> PacingSlides] : n \in 0..MaxPacingSlides}

Catalogue ==
    {SlideSmallFont, SlideImage, SlideLowContrast, SlideSection,
     SlideNumbered, SlideQuiz, SlideFunding}

Decks == UNION {[1..n -> Catalogue] : n \in 0..MaxSlides}

(***************************************************************************)
(* PptxAnalyzer: the per-shape and per-slide checks.  An issue is the dict *)
(* the source appends; its details are kept as a sequence of strings.      *)
(* The checks that depend on dictionaries outside the repository           *)
(* (spelling, reading level, passive voice, jargon, quotes, citations,     *)
(* hyperlinks) only append further issues for the slide at hand and are    *)
(* not part of the model.                                                  *)
(***************************************************************************)
Issue(slide_index, check, shape_name, result, details) ==
    [slide |-> slide_index, check |-> check, shape_name |-> shape_name,
     result |-> result, details |-> details]

RECURSIVE RunsText(_, _)
RunsText(runs, k) == IF k = 0 THEN <<>> ELSE RunsText(runs, k - 1) \o runs[k].text

\* shape.text: the words of all runs
ShapeText(shape) == RunsText(shape.runs, Len(shape.runs))

TitleLike(shape) == shape.ph_type \in {"TITLE", "CENTER_TITLE"}

\* slide.shapes.title: the first title placeholder, 0 when there is none
TitleIndex(slide) ==
    LET c == {k \in 1..Len(slide.shapes) : TitleLike(slide.shapes[k])}
    IN  IF c = {} THEN 0 ELSE Min(c)

EXEMPT_SHAPE_NAMES == {"block", "cover", "mask", "clicktrigger"}

\* the shape names of the decks that contain one of EXEMPT_SHAPE_NAMES
ExemptNamed == {"Cover Block", "Mask"}

_is_exempt_shape(shape) ==
    \/ shape.ph_type \in {"SLIDE_NUMBER", "FOOTER", "DATE"}
    \/ shape.name \in ExemptNamed

_resolve_font_name(font_name) ==
    IF font_name = "" THEN "Calibri"
    ELSE IF font_name = "+mj-lt" THEN TITLE_FONT_NAME
    ELSE IF font_name = "+mn-lt" THEN BODY_FONT_NAME
    ELSE font_name

_extract_slide_text_content(slide) ==
    LET ti    == TitleIndex(slide)
        title == IF ti = 0 THEN <<>> ELSE ShapeText(slide.shapes[ti])
        parts == [k \in 1..Len(slide.shapes) |->
                    IF ShapeText(slide.shapes[k]) # <<>>
                       /\ ShapeText(slide.shapes[k]) # title
                    THEN ShapeText(slide.shapes[k]) ELSE <<>>]
        images == Cardinality({k \in 1..Len(slide.shapes) :
                                  slide.shapes[k].shape_type = "PICTURE"})
    IN  [title |-> title, text |-> Flatten(parts, Len(parts)),
         notes |-> slide.notes,
         visual_context |-> [layout |-> slide.layout, images |-> images]]

\* the words of " ".join(text_parts): the line breaks Flatten puts are blanks
JoinParts(words) == SelectSeq(words, LAMBDA w : w # "\n")

_determine_real_background(target_shp, slide) ==
    LET own == target_shp.fill
        ids == {k \in 1..Len(slide.shapes) :
                   slide.shapes[k].shape_id = target_shp.shape_id}
        target_index == IF ids = {} THEN 0 ELSE Min(ids)
        bg(c) == IF c.shape_type = "TABLE" THEN BG_IS_TABLE
                 ELSE IF c.fill.type = "SOLID"
                      THEN IF c.fill.alpha \in {"None", "1.0"}
                           THEN rgb_pptx_to_tuple(c.fill.rgb) ELSE <<>>
                 ELSE IF c.fill.type \in {"PICTURE", "TEXTURE"} THEN BG_IS_IMAGE
                 ELSE <<>>
        below == {k \in 1..Len(slide.shapes) :
                     /\ k < target_index
                     /\ shapes_overlap(target_shp, slide.shapes[k])
                     /\ slide.shapes[k].shape_id # target_shp.shape_id
                     /\ bg(slide.shapes[k]) # <<>>}
    IN  IF own.type = "SOLID" /\ own.visible = "True" /\ own.alpha \in {"None", "1.0"}
        THEN rgb_pptx_to_tuple(own.rgb)
        ELSE IF own.type \in {"PICTURE", "TEXTURE"} THEN BG_IS_IMAGE
        ELSE IF below # {} THEN bg(slide.shapes[Max(below)])
        ELSE WHITE_RGB_TUPLE

_check_reading_order(slide, slide_index) ==
    LET c == {k \in 1..Len(slide.shapes) : TitleLike(slide.shapes[k])}
    IN  IF c = {}
        THEN <<Issue(slide_index, "Accessibility Reading Order", "Slide", "FAIL",
                     <<"Slide missing standard Title placeholder.">>)>>
        ELSE LET top    == Min({slide.shapes[k].top : k \in c})
                 target == slide.shapes[Min({k \in c : slide.shapes[k].top = top})]
                 hit(s) == /\ shapes_overlap(target, s)
                           /\ ~_is_exempt_shape(s)
                           /\ s.shape_id # target.shape_id
                 over   == SelectSeq(slide.shapes, hit)
             IN  [k \in 1..Len(over) |->
                    Issue(slide_index, "Accessibility Reading Order", over[k].name,
                          "FAIL", <<"Object obscures the Title.", over[k].name>>)]

RECURSIVE FontRunIssues(_, _, _, _)
FontRunIssues(shape, slide_index, is_title, k) ==
    IF k = 0 THEN <<>>
    ELSE LET run    == shape.runs[k]
             f_name == _resolve_font_name(
                          IF run.font_name # "" THEN run.font_name
                          ELSE IF is_title THEN "+mj-lt" ELSE "+mn-lt")
             f_size == run.size
             here   ==
                 IF run.text = <<>> THEN <<>>
                 ELSE IF is_title
                 THEN IF f_name # TITLE_FONT_NAME
                      THEN <<Issue(slide_index, "Font Rules", shape.name, "FAIL",
                                   <<"Title font is", f_name>>)>>
                      ELSE <<>>
                 ELSE IF f_size < BODY_FONT_SIZE_MIN /\ f_size > 0
                      THEN <<Issue(slide_index, "Font Rules", shape.name, "FAIL",
                                   <<"Font size below minimum.", ToString(f_size)>>)>>
                      ELSE <<>>
         IN  FontRunIssues(shape, slide_index, is_title, k - 1) \o here

_check_fonts(shape, slide_index, is_ghost_title) ==
    IF ShapeText(shape) = <<>> THEN <<>>
    ELSE IF is_ghost_title THEN <<>>
    ELSE FontRunIssues(shape, slide_index, TitleLike(shape), Len(shape.runs))

_check_brand_colors(shape, slide_index) ==
    IF /\ shape.fill.type = "SOLID" /\ shape.fill.visible = "True"
       /\ ~is_brand_color(rgb_pptx_to_tuple(shape.fill.rgb))
    THEN <<Issue(slide_index, "Brand Consistency", shape.name, "FAIL",
                 <<"Non-brand object color found", shape.fill.rgb>>)>>
    ELSE <<>>

_check_non_text_contrast(shape, slide, slide_index) ==
    IF ShapeText(shape) # <<>> THEN <<>>
    ELSE IF \/ shape.fill.type # "SOLID" \/ shape.fill.visible # "True"
            \/ shape.fill.alpha \notin {"None", "1.0"} THEN <<>>
    ELSE LET obj_rgb == rgb_pptx_to_tuple(shape.fill.rgb)
             bg_rgb  == _determine_real_background(shape, slide)
         IN  IF bg_rgb \in {BG_IS_IMAGE, BG_IS_TABLE} THEN <<>>
             ELSE IF ContrastBelow(obj_rgb, bg_rgb, WCAG_MIN_GRAPHIC_RATIO)
             THEN <<Issue(slide_index, "WCAG Graphic Contrast", shape.name, "FAIL",
                          <<"Low contrast graphics.",
                            ToString(RatioTenths(obj_rgb, bg_rgb))>>)>>
             ELSE <<>>

_check_alt_text(shape, slide_index) ==
    IF shape.shape_type = "PICTURE" /\ shape.descr # "decorative" /\ shape.descr = ""
    THEN <<Issue(slide_index, "Accessibility - Alt Text", shape.name, "FAIL",
                 <<"Image is missing Alt Text.", shape.name>>)>>
    ELSE <<>>

\* a faulty variant of ContrastRunIssues: every run over an image or a table
\* is reported
RECURSIVE ContrastRunIssues_EveryRun(_, _, _, _, _)
ContrastRunIssues_EveryRun(shape, slide, slide_index, k, seen) ==
    IF k = 0 THEN [issues |-> <<>>, seen |-> seen]
    ELSE LET before   == ContrastRunIssues_EveryRun(shape, slide, slide_index, k - 1, seen)
             run      == shape.runs[k]
             text_rgb == IF run.color = "" THEN BLACK_RGB_TUPLE
                         ELSE rgb_pptx_to_tuple(run.color)
             bg_rgb   == _determine_real_background(shape, slide)
         IN  IF run.text = <<>> THEN before
             ELSE IF bg_rgb \in {BG_IS_IMAGE, BG_IS_TABLE}
             THEN IF TRUE
                  THEN [issues |-> before.issues \o
                           <<Issue(slide_index, "WCAG Text Contrast", shape.name,
                                   "MANUAL REVIEW",
                                   <<"Text is over Image/Table.">> \o run.text)>>,
                        seen |-> before.seen \cup {shape.shape_id}]
                  ELSE before
             ELSE IF ContrastBelow(text_rgb, bg_rgb, get_required_ratio(run))
             THEN [issues |-> before.issues \o
                      <<Issue(slide_index, "WCAG Text Contrast", shape.name, "FAIL",
                              <<"Contrast fails WCAG.",
                                ToString(RatioTenths(text_rgb, bg_rgb)),
                                ToString(get_required_ratio(run))>>)>>,
                   seen |-> before.seen]
             ELSE before

\* the contrast loop over the runs of one shape (lines 568-602); seen is the
\* set shapes_with_contrast_issues, the result is the issues and the new set
RECURSIVE ContrastRunIssues(_, _, _, _, _)
ContrastRunIssues(shape, slide, slide_index, k, seen) ==
    IF k = 0 THEN [issues |-> <<>>, seen |-> seen]
    ELSE LET before   == ContrastRunIssues(shape, slide, slide_index, k - 1, seen)
             run      == shape.runs[k]
             text_rgb == IF run.color = "" THEN BLACK_RGB_TUPLE
                         ELSE rgb_pptx_to_tuple(run.color)
             bg_rgb   == _determine_real_background(shape, slide)
         IN  IF run.text = <<>> THEN before
             ELSE IF bg_rgb \in {BG_IS_IMAGE, BG_IS_TABLE}
             THEN IF shape.shape_id \notin before.seen
                  THEN [issues |-> before.issues \o
                           <<Issue(slide_index, "WCAG Text Contrast", shape.name,
                                   "MANUAL REVIEW",
                                   <<"Text is over Image/Table.">> \o run.text)>>,
                        seen |-> before.seen \cup {shape.shape_id}]
                  ELSE before
             ELSE IF ContrastBelow(text_rgb, bg_rgb, get_required_ratio(run))
             THEN [issues |-> before.issues \o
                      <<Issue(slide_index, "WCAG Text Contrast", shape.name, "FAIL",
                              <<"Contrast fails WCAG.",
                                ToString(RatioTenths(text_rgb, bg_rgb)),
                                ToString(get_required_ratio(run))>>)>>,
                   seen |-> before.seen]
             ELSE before

\* one round of the loop over the shapes of a slide (lines 554-602)
RECURSIVE ShapeLoop(_, _, _)
ShapeLoop(slide, slide_index, k) ==
    IF k = 0 THEN [issues |-> <<>>, seen |-> {}]
    ELSE LET before == ShapeLoop(slide, slide_index, k - 1)
             shape  == slide.shapes[k]
             is_ghost == FALSE
             runs   == ContrastRunIssues(shape, slide, slide_index,
                                         Len(shape.runs), before.seen)
         IN  IF _is_exempt_shape(shape) THEN before
             ELSE [issues |-> before.issues
                                \o _check_fonts(shape, slide_index, is_ghost)
                                \o _check_brand_colors(shape, slide_index)
                                \o _check_non_text_contrast(shape, slide, slide_index)
                                \o _check_alt_text(shape, slide_index)
                                \o runs.issues,
                   seen |-> runs.seen]

NOTES_FONT_NAME == "Calibri"

NOTES_FONT_SIZE_MIN == 11

NOTES_FONT_SIZE_MAX == 12

\* the font, size and colour checks of the notes' run (lines 500-525)
_check_notes_formatting(slide, slide_index) ==
    LET f == slide.notes_font
        raw_font_name == IF f.font_name = "" THEN "+mn-lt" ELSE f.font_name
    IN  (IF _resolve_font_name(raw_font_name) # NOTES_FONT_NAME
         THEN <<Issue(slide_index, "Notes Formatting", "Speaker Notes", "FAIL",
                      <<"Notes font is", raw_font_name>>)>>
         ELSE <<>>)
        \o
        (IF ~(NOTES_FONT_SIZE_MIN <= f.size /\ f.size <= NOTES_FONT_SIZE_MAX)
         THEN <<Issue(slide_index, "Notes Formatting", "Speaker Notes", "FAIL",
                      <<"Notes size is", ToString(f.size)>>)>>
         ELSE <<>>)
        \o
        (IF f.color # "" /\ rgb_pptx_to_tuple(f.color) # <<0, 0, 0>>
         THEN <<Issue(slide_index, "Notes Formatting", "Speaker Notes", "FAIL",
                      <<"Notes font color is not Black.">>)>>
         ELSE <<>>)

\* header.lower() in notes_lower, for the two headers that are reported
NotesHaveHeader(notes, w1, w2) ==
    \E k \in 1..Len(notes) :
        \E m \in 1..(Len(notes[k]) - 1) :
            Lower(notes[k][m]) = w1 /\ Lower(notes[k][m + 1]) = w2

_check_notes_content(slide, slide_index) ==
    (IF ~NotesHaveHeader(slide.notes, "instructional", "activity:")
     THEN <<Issue(slide_index, "Instructional Design", "Speaker Notes", "FAIL",
                  <<"Missing critical header:", "Instructional Activity:">>)>>
     ELSE <<>>)
    \o
    (IF ~NotesHaveHeader(slide.notes, "instructional", "time:")
     THEN <<Issue(slide_index, "Instructional Design", "Speaker Notes", "FAIL",
                  <<"Missing critical header:", "Instructional Time:">>)>>
     ELSE <<>>)

\* the issues analyze_slide adds to qa_report for one slide
\* a faulty variant of SlideIssues: the checks run on exempt slides too
SlideIssues_ExemptChecked(slide, slide_index, is_exempt) ==
    (IF is_exempt
     THEN <<Issue(slide_index, "Status", "Slide", "EXEMPT",
                  <<"Slide excluded from analysis.">>)>>
     ELSE <<>>)
    \o _check_reading_order(slide, slide_index)
    \o ShapeLoop(slide, slide_index, Len(slide.shapes)).issues

SlideIssues(slide, slide_index, is_exempt) ==
    IF is_exempt
    THEN <<Issue(slide_index, "Status", "Slide", "EXEMPT",
                 <<"Slide excluded from analysis.">>)>>
    ELSE _check_reading_order(slide, slide_index)
         \o ShapeLoop(slide, slide_index, Len(slide.shapes)).issues
         \o (IF slide.notes # <<>>
             THEN _check_notes_formatting(slide, slide_index)
                  \o _check_notes_content(slide, slide_index)
             ELSE <<>>)

SlideContent(slide, slide_index) ==
    LET content == _extract_slide_text_content(slide)
    IN  [slide_number |-> slide_index, title |-> content.title,
         full_text |-> JoinParts(content.text), notes |-> content.notes,
         visual_context |-> content.visual_context]

(***************************************************************************)
(* The state of the analyzers.  Every variable is a function of the        *)
(* analyzer instance (one PptxAnalyzer per document); config holds the     *)
(* exemption rules of config.py, which all instances read.                 *)
(***************************************************************************)
VARIABLES
    prs,                      \* the slides of the presentation each analyzer opened
    config,                   \* EXEMPT_FIRST_SLIDE, EXEMPT_LAST_SLIDE, EXEMPT_SPECIFIC_SLIDES
    pc,                       \* where run_analysis stands
    pos,                      \* the index of the slide the running loop visits next
    total_slides_checked,
    qa_report,
    slide_content_map,
    gagne_metrics,
    gagne_time_distribution,
    pacing_data,
    current_section,
    active_funded_activity,
    cadence_log,              \* the locals of each round of the pacing loop
    final_data,               \* what run_analysis returns
    full_data                 \* what qa_tool.run_audit_slide saves

analyzerVars ==
    <<prs, config, pc, pos, total_slides_checked, qa_report, slide_content_map,
      gagne_metrics, gagne_time_distribution, pacing_data, current_section,
      active_funded_activity, cadence_log, final_data, full_data>>

\* the state of one analyze_batch call (AIEngine, ai_engine.py)
VARIABLES
    brand_config,             \* exempt_first_slide, exempt_last_slide, exempt_specific_slides
    slides_list,              \* the batch: the slide_number of each slide handed in
    total_slide_count,
    bpc,                      \* where analyze_batch stands
    active_slides,
    skipped_results,
    topic_summary,
    optimized_query,
    research_context,
    agent_calls,              \* each execute_agent call: the role and the slides in its prompt
    db_calls,                 \* each query_vector_db call: the query
    returned                  \* the list analyze_batch returns

batchVars ==
    <<brand_config, slides_list, total_slide_count, bpc, active_slides,
      skipped_results, topic_summary, optimized_query, research_context,
      agent_calls, db_calls, returned>>

\* the state of one find_closest_compliant_color call (utils.py)
VARIABLES
    fg_rgb,
    bg_rgb,
    required_ratio,           \* in tenths
    step,                     \* 95 or 105 hundredths; 0 before the direction is chosen
    candidate_rgb,
    iterations,               \* the rounds of the loop done
    rpc,                      \* where the call stands
    compliant_color           \* what the call returns

remedyVars ==
    <<fg_rgb, bg_rgb, required_ratio, step, candidate_rgb, iterations, rpc,
      compliant_color>>

vars == <<analyzerVars, batchVars, remedyVars>>

\* the readings of datetime.now() a run may get
Clock == {1, 2}

Configs ==
    [exempt_first : BOOLEAN, exempt_last : BOOLEAN, exempt_specific : {{}, {2}}]

NoReport == [summary |-> <<>>, detailed_issues |-> <<>>, slide_content |-> <<>>]

Frac(n, d) == [n |-> n, d |-> d]

RECURSIVE Gcd(_, _)
Gcd(x, y) == IF y = 0 THEN x ELSE Gcd(y, x % y)

FracAdd(p, q) ==
    LET n == p.n * q.d + q.n * p.d
        d == p.d * q.d
        g == Gcd(n, d)
    IN  IF n = 0 THEN Frac(0, 1) ELSE Frac(n \div g, d \div g)

NewSection(name) ==
    [name |-> name, planned |-> 0, estimated |-> 0, projected |-> 0, slide_count |-> 0]

\* PptxAnalyzer.__init__
InitAnalyzers(ids) ==
    /\ pc = [a \in ids |-> "analyze"]
    /\ pos = [a \in ids |-> 1]
    /\ total_slides_checked = [a \in ids |-> 0]
    /\ qa_report = [a \in ids |-> <<>>]
    /\ slide_content_map = [a \in ids |-> <<>>]
    /\ gagne_metrics = [a \in ids |-> [e \in GagneBuckets |-> 0]]
    /\ gagne_time_distribution = [a \in ids |-> [e \in GagneBuckets |-> Frac(0, 1)]]
    /\ pacing_data = [a \in ids |->
            [total_planned_mins |-> 0, total_estimated_mins |-> 0,
             total_projected_mins |-> 0, used_buffer |-> BUFFER_ACTIVITY_SLIDE,
             sections |-> <<>>]]
    /\ current_section = [a \in ids |-> NewSection(<<"Introduction">>)]
    /\ active_funded_activity = [a \in ids |-> <<>>]
    /\ cadence_log = [a \in ids |-> <<>>]
    /\ final_data = [a \in ids |-> NoReport]
    /\ full_data = [a \in ids |-> NoReport]

\* run_analysis, lines 612-615
ExemptIndices(total_count, cfg) ==
    cfg.exempt_specific
        \cup (IF cfg.exempt_first THEN {1} ELSE {})
        \cup (IF cfg.exempt_last THEN {total_count} ELSE {})

\* a faulty variant of AnalyzeSlide: the content of an exempt slide is not
\* kept for the pacing pass
AnalyzeSlide_ExemptNotKept(a) ==
    /\ pc[a] = "analyze"
    /\ pos[a] <= Len(prs[a])
    /\ LET slide_index == pos[a]
           slide       == prs[a][slide_index]
           is_exempt   == slide_index \in ExemptIndices(Len(prs[a]), config)
       IN  /\ total_slides_checked' =
                 [total_slides_checked EXCEPT ![a] = @ + 1]
           /\ slide_content_map' =
                 [slide_content_map EXCEPT
                    ![a] = IF is_exempt THEN @
                           ELSE Append(@, SlideContent(slide, slide_index))]
           /\ qa_report' =
                 [qa_report EXCEPT ![a] = @ \o SlideIssues(slide, slide_index, is_exempt)]
    /\ pos' = [pos EXCEPT ![a] = @ + 1]
    /\ UNCHANGED <<prs, config, pc, gagne_metrics, gagne_time_distribution,
                   pacing_data, current_section, active_funded_activity,
                   cadence_log, final_data, full_data, batchVars, remedyVars>>

\* a faulty variant of AnalyzeSlide: the issues of a slide are put before
\* those already recorded
AnalyzeSlide_Prepends(a) ==
    /\ pc[a] = "analyze"
    /\ pos[a] <= Len(prs[a])
    /\ LET slide_index == pos[a]
           slide       == prs[a][slide_index]
           is_exempt   == slide_index \in ExemptIndices(Len(prs[a]), config)
       IN  /\ total_slides_checked' =
                 [total_slides_checked EXCEPT ![a] = @ + 1]
           /\ slide_content_map' =
                 [slide_content_map EXCEPT ![a] = Append(@, SlideContent(slide, slide_index))]
           /\ qa_report' =
                 [qa_report EXCEPT ![a] = SlideIssues(slide, slide_index, is_exempt) \o @]
    /\ pos' = [pos EXCEPT ![a] = @ + 1]
    /\ UNCHANGED <<prs, config, pc, gagne_metrics, gagne_time_distribution,
                   pacing_data, current_section, active_funded_activity,
                   cadence_log, final_data, full_data, batchVars, remedyVars>>

\* one round of the loop of run_analysis: analyze_slide(slide, i + 1, is_exempt)
AnalyzeSlide(a) ==
    /\ pc[a] = "analyze"
    /\ pos[a] <= Len(prs[a])
    /\ LET slide_index == pos[a]
           slide       == prs[a][slide_index]
           is_exempt   == slide_index \in ExemptIndices(Len(prs[a]), config)
       IN  /\ total_slides_checked' =
                 [total_slides_checked EXCEPT ![a] = @ + 1]
           /\ slide_content_map' =
                 [slide_content_map EXCEPT ![a] = Append(@, SlideContent(slide, slide_index))]
           /\ qa_report' =
                 [qa_report EXCEPT ![a] = @ \o SlideIssues(slide, slide_index, is_exempt)]
    /\ pos' = [pos EXCEPT ![a] = @ + 1]
    /\ UNCHANGED <<prs, config, pc, gagne_metrics, gagne_time_distribution,
                   pacing_data, current_section, active_funded_activity,
                   cadence_log, final_data, full_data, batchVars, remedyVars>>

(***************************************************************************)
(* _calculate_cadence_metrics: the pacing pass.                            *)
(***************************************************************************)
IsNumberedHeading(title) == Len(title) >= 1 /\ title[1] \in {"1.1.1"}

IsSectionBreak(layout, title) ==
    LET layout_name == LowerLine(layout)
    IN  \/ \E kw \in {"section", "agenda", "divider"} : HasWord(layout_name, kw)
        \/ IsNumberedHeading(title)

IsInteractive(detected_events) ==
    detected_events \cap {"Provide Guidance", "Elicit Performance", "Assess Performance"} # {}

\* a faulty variant of SlideTime: the estimate has no floor of half a minute
SlideTime_NoFloor(explicit_time, current_activity, funded, is_interactive, word_count, active_buffer) ==
    IF explicit_time > 0 THEN explicit_time * TimeUnit
    ELSE IF current_activity # <<>> /\ current_activity = funded THEN 0
    ELSE IF is_interactive /\ current_activity # <<>> /\ active_buffer > 0
         THEN IF word_count > active_buffer THEN word_count ELSE active_buffer
         ELSE word_count

\* a faulty variant of SlideTime: a slide that continues the funded
\* activity is suppressed though it states a time of its own
SlideTime_SuppressedWhenFunded(explicit_time, current_activity, funded, is_interactive, word_count, active_buffer) ==
    IF current_activity # <<>> /\ current_activity = funded THEN 0
    ELSE IF explicit_time > 0 THEN explicit_time * TimeUnit
    ELSE LET word_count_time == IF word_count > HalfMinute THEN word_count ELSE HalfMinute
         IN  IF is_interactive /\ current_activity # <<>> /\ active_buffer > 0
             THEN IF word_count_time > active_buffer THEN word_count_time ELSE active_buffer
             ELSE word_count_time

\* a faulty variant of SlideTime: an interactive labelled slide is given the
\* buffer whatever its reading time
SlideTime_BufferOnly(explicit_time, current_activity, funded, is_interactive, word_count, active_buffer) ==
    IF explicit_time > 0 THEN explicit_time * TimeUnit
    ELSE IF current_activity # <<>> /\ current_activity = funded THEN 0
    ELSE LET word_count_time == IF word_count > HalfMinute THEN word_count ELSE HalfMinute
         IN  IF is_interactive /\ current_activity # <<>> /\ active_buffer > 0
             THEN active_buffer
             ELSE word_count_time

\* a faulty variant of SlideTime: a slide without a label continues the
\* funded activity when none is funded
SlideTime_EmptyLabelFunded(explicit_time, current_activity, funded, is_interactive, word_count, active_buffer) ==
    IF explicit_time > 0 THEN explicit_time * TimeUnit
    ELSE IF current_activity = funded THEN 0
    ELSE LET word_count_time == IF word_count > HalfMinute THEN word_count ELSE HalfMinute
         IN  IF is_interactive /\ current_activity # <<>> /\ active_buffer > 0
             THEN IF word_count_time > active_buffer THEN word_count_time ELSE active_buffer
             ELSE word_count_time

\* lines 218-235: the projected time of a slide
SlideTime(explicit_time, current_activity, funded, is_interactive, word_count, active_buffer) ==
    IF explicit_time > 0 THEN explicit_time * TimeUnit
    ELSE IF current_activity # <<>> /\ current_activity = funded THEN 0
    ELSE LET word_count_time == IF word_count > HalfMinute THEN word_count ELSE HalfMinute
         IN  IF is_interactive /\ current_activity # <<>> /\ active_buffer > 0
             THEN IF word_count_time > active_buffer THEN word_count_time ELSE active_buffer
             ELSE word_count_time

\* a faulty variant of FundedAfter: the funding is used up by the first slide
\* that continues the activity
FundedAfter_FirstSuccessorOnly(explicit_time, current_activity, funded) ==
    IF explicit_time > 0 THEN current_activity ELSE <<>>

\* a faulty variant of FundedAfter: an estimated slide leaves the funded
\* activity as it was
FundedAfter_KeptOnEstimate(explicit_time, current_activity, funded) ==
    IF explicit_time > 0 THEN current_activity ELSE funded

\* lines 220-235: the funded activity after a slide
FundedAfter(explicit_time, current_activity, funded) ==
    IF explicit_time > 0 THEN current_activity
    ELSE IF current_activity # <<>> /\ current_activity = funded THEN funded
    ELSE <<>>

\* a faulty variant of GagneWeight: the time is divided evenly
GagneWeight_Even(ev) == 1

\* lines 248-250
GagneWeight(ev) ==
    IF ev \in {"Elicit Performance", "Assess Performance"} THEN 10
    ELSE IF ev \in {"Present Content", "Provide Feedback"} THEN 3
    ELSE 1

RECURSIVE SumWeights(_)
SumWeights(events) ==
    IF events = {} THEN 0
    ELSE LET e == CHOOSE x \in events : TRUE
         IN  GagneWeight(e) + SumWeights(events \ {e})

\* a faulty variant of CadenceBegin: the accumulators are shared by the
\* analyzers of the process, and the start of a pass clears them for all
CadenceBegin_SharedAccumulators(a) ==
    /\ pc[a] = "analyze"
    /\ pos[a] > Len(prs[a])
    /\ gagne_metrics' = [b \in DOMAIN gagne_metrics |-> [e \in GagneBuckets |-> 0]]
    /\ gagne_time_distribution' =
          [b \in DOMAIN gagne_time_distribution |-> [e \in GagneBuckets |-> Frac(0, 1)]]
    /\ pacing_data' = [b \in DOMAIN pacing_data |->
                          [pacing_data[b] EXCEPT !.total_planned_mins = 0,
                                                 !.total_projected_mins = 0,
                                                 !.sections = <<>>]]
    /\ current_section' = [b \in DOMAIN current_section |-> NewSection(<<"Introduction">>)]
    /\ active_funded_activity' = [b \in DOMAIN active_funded_activity |-> <<>>]
    /\ cadence_log' = [b \in DOMAIN cadence_log |-> <<>>]
    /\ pc' = [pc EXCEPT ![a] = "cadence"]
    /\ pos' = [pos EXCEPT ![a] = 1]
    /\ UNCHANGED <<prs, config, total_slides_checked, qa_report,
                   slide_content_map, final_data, full_data, batchVars, remedyVars>>

\* lines 180-189
CadenceBegin(a) ==
    /\ pc[a] = "analyze"
    /\ pos[a] > Len(prs[a])
    /\ gagne_metrics' = [gagne_metrics EXCEPT ![a] = [e \in GagneBuckets |-> 0]]
    /\ gagne_time_distribution' =
          [gagne_time_distribution EXCEPT ![a] = [e \in GagneBuckets |-> Frac(0, 1)]]
    /\ pacing_data' = [pacing_data EXCEPT ![a].total_planned_mins = 0,
                                          ![a].total_projected_mins = 0,
                                          ![a].sections = <<>>]
    /\ current_section' = [current_section EXCEPT ![a] = NewSection(<<"Introduction">>)]
    /\ active_funded_activity' = [active_funded_activity EXCEPT ![a] = <<>>]
    /\ cadence_log' = [cadence_log EXCEPT ![a] = <<>>]
    /\ pc' = [pc EXCEPT ![a] = "cadence"]
    /\ pos' = [pos EXCEPT ![a] = 1]
    /\ UNCHANGED <<prs, config, total_slides_checked, qa_report,
                   slide_content_map, final_data, full_data, batchVars, remedyVars>>

\* a faulty variant of SlideRound: a section boundary leaves the funded
\* activity as it was
SlideRound_NoBoundaryReset(slide, carried_funded, active_buffer) ==
    LET notes   == slide.notes
        title   == slide.title
        is_section_break == IsSectionBreak(slide.visual_context.layout, title)
        funded  == carried_funded
        explicit_time    == ExplicitTime(notes)
        current_activity == CurrentActivity(notes)
        detected_events  == _map_gagne_event(notes, title)
        word_count == WordCount(notes, Len(notes)) + Len(slide.full_text)
    IN  [slide_number |-> slide.slide_number,
         is_section_break |-> is_section_break,
         explicit_time |-> explicit_time,
         current_activity |-> current_activity,
         detected_events |-> detected_events,
         word_count |-> word_count,
         slide_time |-> SlideTime(explicit_time, current_activity, funded,
                                  IsInteractive(detected_events), word_count,
                                  active_buffer),
         funded_after |-> FundedAfter(explicit_time, current_activity, funded)]

\* the locals of one round of the loop of lines 191-259
SlideRound(slide, carried_funded, active_buffer) ==
    LET notes   == slide.notes
        title   == slide.title
        is_section_break == IsSectionBreak(slide.visual_context.layout, title)
        funded  == IF is_section_break THEN <<>> ELSE carried_funded
        explicit_time    == ExplicitTime(notes)
        current_activity == CurrentActivity(notes)
        detected_events  == _map_gagne_event(notes, title)
        word_count == WordCount(notes, Len(notes)) + Len(slide.full_text)
    IN  [slide_number |-> slide.slide_number,
         is_section_break |-> is_section_break,
         explicit_time |-> explicit_time,
         current_activity |-> current_activity,
         detected_events |-> detected_events,
         word_count |-> word_count,
         slide_time |-> SlideTime(explicit_time, current_activity, funded,
                                  IsInteractive(detected_events), word_count,
                                  active_buffer),
         funded_after |-> FundedAfter(explicit_time, current_activity, funded)]

\* a faulty variant of CadenceSlide: a boundary pushes the current section
\* also when it has no slide
CadenceSlide_PushesEmpty(a) ==
    /\ pc[a] = "cadence"
    /\ pos[a] <= Len(slide_content_map[a])
    /\ \E slide \in {slide_content_map[a][pos[a]]} :
       \E r \in {SlideRound(slide, active_funded_activity[a], pacing_data[a].used_buffer)} :
       \E total_weight \in {SumWeights(r.detected_events)} :
          LET pushed  == IF r.is_section_break
                         THEN Append(pacing_data[a].sections, current_section[a])
                         ELSE pacing_data[a].sections
              section_name == IF slide.title # <<>> THEN slide.title
                              ELSE <<"Section", ToString(slide.slide_number)>>
              section == IF r.is_section_break THEN NewSection(section_name)
                         ELSE current_section[a]
          IN  /\ active_funded_activity' =
                    [active_funded_activity EXCEPT ![a] = r.funded_after]
              /\ pacing_data' =
                    [pacing_data EXCEPT
                        ![a].sections = pushed,
                        ![a].total_planned_mins = @ + r.explicit_time,
                        ![a].total_projected_mins = @ + r.slide_time]
              /\ current_section' =
                    [current_section EXCEPT
                        ![a] = [section EXCEPT !.slide_count = @ + 1,
                                               !.projected = @ + r.slide_time,
                                               !.planned = @ + r.explicit_time]]
              /\ gagne_metrics' =
                    [gagne_metrics EXCEPT
                        ![a] = [e \in GagneBuckets |->
                                  IF e \in r.detected_events
                                     \/ (e = "Other" /\ r.detected_events = {})
                                  THEN @[e] + 1 ELSE @[e]]]
              /\ gagne_time_distribution' =
                    [gagne_time_distribution EXCEPT
                        ![a] = [e \in GagneBuckets |->
                                  IF e \in r.detected_events
                                  THEN FracAdd(@[e], Frac(GagneWeight(e) * r.slide_time,
                                                          total_weight))
                                  ELSE @[e]]]
              /\ cadence_log' = [cadence_log EXCEPT ![a] = Append(@, r)]
    /\ pos' = [pos EXCEPT ![a] = @ + 1]
    /\ UNCHANGED <<prs, config, pc, total_slides_checked, qa_report,
                   slide_content_map, final_data, full_data, batchVars, remedyVars>>

\* a faulty variant of CadenceSlide: the time of the slide is also added to
\* the sections already in the list
CadenceSlide_AddsToClosed(a) ==
    /\ pc[a] = "cadence"
    /\ pos[a] <= Len(slide_content_map[a])
    /\ \E slide \in {slide_content_map[a][pos[a]]} :
       \E r \in {SlideRound(slide, active_funded_activity[a], pacing_data[a].used_buffer)} :
       \E total_weight \in {SumWeights(r.detected_events)} :
          LET pushed  == IF r.is_section_break /\ current_section[a].slide_count > 0
                         THEN Append(pacing_data[a].sections, current_section[a])
                         ELSE pacing_data[a].sections
              section_name == IF slide.title # <<>> THEN slide.title
                              ELSE <<"Section", ToString(slide.slide_number)>>
              section == IF r.is_section_break THEN NewSection(section_name)
                         ELSE current_section[a]
          IN  /\ active_funded_activity' =
                    [active_funded_activity EXCEPT ![a] = r.funded_after]
              /\ pacing_data' =
                    [pacing_data EXCEPT
                        ![a].sections = [k \in 1..Len(pushed) |->
                                           [pushed[k] EXCEPT !.projected = @ + r.slide_time]],
                        ![a].total_planned_mins = @ + r.explicit_time,
                        ![a].total_projected_mins = @ + r.slide_time]
              /\ current_section' =
                    [current_section EXCEPT
                        ![a] = [section EXCEPT !.slide_count = @ + 1,
                                               !.projected = @ + r.slide_time,
                                               !.planned = @ + r.explicit_time]]
              /\ gagne_metrics' =
                    [gagne_metrics EXCEPT
                        ![a] = [e \in GagneBuckets |->
                                  IF e \in r.detected_events
                                     \/ (e = "Other" /\ r.detected_events = {})
                                  THEN @[e] + 1 ELSE @[e]]]
              /\ gagne_time_distribution' =
                    [gagne_time_distribution EXCEPT
                        ![a] = [e \in GagneBuckets |->
                                  IF e \in r.detected_events
                                  THEN FracAdd(@[e], Frac(GagneWeight(e) * r.slide_time,
                                                          total_weight))
                                  ELSE @[e]]]
              /\ cadence_log' = [cadence_log EXCEPT ![a] = Append(@, r)]
    /\ pos' = [pos EXCEPT ![a] = @ + 1]
    /\ UNCHANGED <<prs, config, pc, total_slides_checked, qa_report,
                   slide_content_map, final_data, full_data, batchVars, remedyVars>>

\* one round of the loop of lines 191-259
\* a faulty variant of CadenceSlide: an event is counted once for the title
\* and once more for the notes
CadenceSlide_CountsEachSignal(a) ==
    /\ pc[a] = "cadence"
    /\ pos[a] <= Len(slide_content_map[a])
    /\ \E slide \in {slide_content_map[a][pos[a]]} :
       \E r \in {SlideRound(slide, active_funded_activity[a], pacing_data[a].used_buffer)} :
       \E total_weight \in {SumWeights(r.detected_events)} :
          LET pushed  == IF r.is_section_break /\ current_section[a].slide_count > 0
                         THEN Append(pacing_data[a].sections, current_section[a])
                         ELSE pacing_data[a].sections
              section_name == IF slide.title # <<>> THEN slide.title
                              ELSE <<"Section", ToString(slide.slide_number)>>
              section == IF r.is_section_break THEN NewSection(section_name)
                         ELSE current_section[a]
          IN  /\ active_funded_activity' =
                    [active_funded_activity EXCEPT ![a] = r.funded_after]
              /\ pacing_data' =
                    [pacing_data EXCEPT
                        ![a].sections = pushed,
                        ![a].total_planned_mins = @ + r.explicit_time,
                        ![a].total_projected_mins = @ + r.slide_time]
              /\ current_section' =
                    [current_section EXCEPT
                        ![a] = [section EXCEPT !.slide_count = @ + 1,
                                               !.projected = @ + r.slide_time,
                                               !.planned = @ + r.explicit_time]]
              /\ gagne_metrics' =
                    [gagne_metrics EXCEPT
                        ![a] = [e \in GagneBuckets |->
                                  IF e = "Other"
                                  THEN @[e] + (IF r.detected_events = {} THEN 1 ELSE 0)
                                  ELSE @[e]
                                       + (IF e = "Assess Performance"
                                             /\ TitleIsAssessment(LowerLine(slide.title))
                                          THEN 1 ELSE 0)
                                       + (IF TargetLine(slide.notes) # <<>>
                                             /\ LineMatchesEvent(TargetLine(slide.notes), e)
                                          THEN 1 ELSE 0)]]
              /\ gagne_time_distribution' =
                    [gagne_time_distribution EXCEPT
                        ![a] = [e \in GagneBuckets |->
                                  IF e \in r.detected_events
                                  THEN FracAdd(@[e], Frac(GagneWeight(e) * r.slide_time,
                                                          total_weight))
                                  ELSE @[e]]]
              /\ cadence_log' = [cadence_log EXCEPT ![a] = Append(@, r)]
    /\ pos' = [pos EXCEPT ![a] = @ + 1]
    /\ UNCHANGED <<prs, config, pc, total_slides_checked, qa_report,
                   slide_content_map, final_data, full_data, batchVars, remedyVars>>

CadenceSlide(a) ==
    /\ pc[a] = "cadence"
    /\ pos[a] <= Len(slide_content_map[a])
    /\ \E slide \in {slide_content_map[a][pos[a]]} :
       \E r \in {SlideRound(slide, active_funded_activity[a], pacing_data[a].used_buffer)} :
       \E total_weight \in {SumWeights(r.detected_events)} :
          LET pushed  == IF r.is_section_break /\ current_section[a].slide_count > 0
                         THEN Append(pacing_data[a].sections, current_section[a])
                         ELSE pacing_data[a].sections
              section_name == IF slide.title # <<>> THEN slide.title
                              ELSE <<"Section", ToString(slide.slide_number)>>
              section == IF r.is_section_break THEN NewSection(section_name)
                         ELSE current_section[a]
          IN  /\ active_funded_activity' =
                    [active_funded_activity EXCEPT ![a] = r.funded_after]
              /\ pacing_data' =
                    [pacing_data EXCEPT
                        ![a].sections = pushed,
                        ![a].total_planned_mins = @ + r.explicit_time,
                        ![a].total_projected_mins = @ + r.slide_time]
              /\ current_section' =
                    [current_section EXCEPT
                        ![a] = [section EXCEPT !.slide_count = @ + 1,
                                               !.projected = @ + r.slide_time,
                                               !.planned = @ + r.explicit_time]]
              /\ gagne_metrics' =
                    [gagne_metrics EXCEPT
                        ![a] = [e \in GagneBuckets |->
                                  IF e \in r.detected_events
                                     \/ (e = "Other" /\ r.detected_events = {})
                                  THEN @[e] + 1 ELSE @[e]]]
              /\ gagne_time_distribution' =
                    [gagne_time_distribution EXCEPT
                        ![a] = [e \in GagneBuckets |->
                                  IF e \in r.detected_events
                                  THEN FracAdd(@[e], Frac(GagneWeight(e) * r.slide_time,
                                                          total_weight))
                                  ELSE @[e]]]
              /\ cadence_log' = [cadence_log EXCEPT ![a] = Append(@, r)]
    /\ pos' = [pos EXCEPT ![a] = @ + 1]
    /\ UNCHANGED <<prs, config, pc, total_slides_checked, qa_report,
                   slide_content_map, final_data, full_data, batchVars, remedyVars>>

\* a faulty variant of CadenceEnd: the open section is not flushed
CadenceEnd_NoFlush(a) ==
    /\ pc[a] = "cadence"
    /\ pos[a] > Len(slide_content_map[a])
    /\ pc' = [pc EXCEPT ![a] = "aggregate"]
    /\ UNCHANGED <<prs, config, pos, total_slides_checked, qa_report,
                   slide_content_map, gagne_metrics, gagne_time_distribution,
                   pacing_data, current_section, active_funded_activity,
                   cadence_log, final_data, full_data, batchVars, remedyVars>>

\* lines 261-262: the open section is flushed
CadenceEnd(a) ==
    /\ pc[a] = "cadence"
    /\ pos[a] > Len(slide_content_map[a])
    /\ pacing_data' =
          [pacing_data EXCEPT
              ![a].sections = IF current_section[a].slide_count > 0
                              THEN Append(@, current_section[a]) ELSE @]
    /\ pc' = [pc EXCEPT ![a] = "aggregate"]
    /\ UNCHANGED <<prs, config, pos, total_slides_checked, qa_report,
                   slide_content_map, gagne_metrics, gagne_time_distribution,
                   current_section, active_funded_activity, cadence_log,
                   final_data, full_data, batchVars, remedyVars>>

(***************************************************************************)
(* run_analysis, lines 622-665, and qa_tool.run_audit_slide, lines 94-144. *)
(* Percentages are kept in tenths, as round(x, 1) leaves them.             *)
(***************************************************************************)
\* round() of num / den to an integer, ties to even
RoundHalfEven(num, den) ==
    LET q == num \div den
        r == num % den
    IN  IF 2 * r < den THEN q
        ELSE IF 2 * r > den THEN q + 1
        ELSE IF q % 2 = 0 THEN q ELSE q + 1

\* a faulty variant of FailSlides: one entry per FAIL issue, not per slide
FailSlides_PerIssue(issues) ==
    {<<issues[k].slide, k>> : k \in {m \in 1..Len(issues) : issues[m].result = "FAIL"}}

\* the slides named by the issues whose result is FAIL
FailSlides(issues) ==
    {issues[k].slide : k \in {m \in 1..Len(issues) : issues[m].result = "FAIL"}}

\* lines 625-628, in tenths of a percent
Score(checked, issues) ==
    IF checked > 0
    THEN RoundHalfEven((checked - Cardinality(FailSlides(issues))) * 1000, checked)
    ELSE 1000

\* len([i for i in issues if i.get('result') in results])
CountResults(issues, results) ==
    Cardinality({k \in 1..Len(issues) : issues[k].result \in results})

\* {str(s['slide_number']): s for s in slide_content_map}
ContentMap(content) ==
    [key \in {ToString(content[k].slide_number) : k \in 1..Len(content)} |->
        content[Max({k \in 1..Len(content) : ToString(content[k].slide_number) = key})]]

\* "check" contains "WCAG": the two contrast checks
IsWcagCheck(check) == check \in {"WCAG Text Contrast", "WCAG Graphic Contrast"}

WcagFailSlides(issues) ==
    {issues[k].slide : k \in {m \in 1..Len(issues) :
                                 IsWcagCheck(issues[m].check) /\ issues[m].result = "FAIL"}}

\* qa_tool lines 101-102 and 132, in tenths of a percent
WcagRate(total, issues) ==
    IF total > 0
    THEN RoundHalfEven((total - Cardinality(WcagFailSlides(issues))) * 1000, total)
    ELSE 1000

\* minutes in tenths from a time kept in units of 1/130 minute
RoundedMinutes(f) == RoundHalfEven(f.n * 10, f.d * TimeUnit)

BuildReport(a) ==
    /\ pc[a] = "aggregate"
    /\ \E now \in Clock :
          LET clean_report == qa_report[a]
              score == Score(total_slides_checked[a], clean_report)
          IN  final_data' =
                [final_data EXCEPT
                   ![a] = [summary |->
                              [date_generated |-> now,
                               total_slides_checked |-> total_slides_checked[a],
                               total_errors |-> Len(clean_report),
                               manual_reviews |->
                                   CountResults(clean_report, {"MANUAL REVIEW"}),
                               executive_metrics |->
                                   [wcag_compliance_rate |-> score,
                                    slides_present_content |->
                                        <<gagne_metrics[a]["Present Content"],
                                          RoundedMinutes(
                                            gagne_time_distribution[a]["Present Content"])>>,
                                    slides_elicit_performance |->
                                        <<gagne_metrics[a]["Elicit Performance"],
                                          RoundedMinutes(
                                            gagne_time_distribution[a]["Elicit Performance"])>>],
                               pacing_metrics |-> pacing_data[a]],
                           detailed_issues |-> clean_report,
                           slide_content |-> ContentMap(slide_content_map[a])]]
    /\ pc' = [pc EXCEPT ![a] = "done"]
    /\ UNCHANGED <<prs, config, pos, total_slides_checked, qa_report,
                   slide_content_map, gagne_metrics, gagne_time_distribution,
                   pacing_data, current_section, active_funded_activity,
                   cadence_log, full_data, batchVars, remedyVars>>

RunAuditSlide(a) ==
    /\ pc[a] = "done"
    /\ \E now \in Clock :
          LET issues == final_data[a].detailed_issues
              total  == total_slides_checked[a]
          IN  full_data' =
                [full_data EXCEPT
                   ![a] = [summary |->
                              [date_generated |-> now,
                               total_slides_checked |-> total,
                               total_errors |->
                                   CountResults(issues, {"FAIL", "WARNING"}),
                               wcag_fails |-> Cardinality(WcagFailSlides(issues)),
                               manual_reviews |->
                                   CountResults(issues, {"MANUAL REVIEW"}),
                               executive_metrics |->
                                   [other_slides |-> gagne_metrics[a]["Other"],
                                    wcag_compliance_rate |-> WcagRate(total, issues)],
                               pacing_metrics |-> pacing_data[a]],
                           detailed_issues |-> issues,
                           slide_content |-> ContentMap(slide_content_map[a])]]
    /\ pc' = [pc EXCEPT ![a] = "audited"]
    /\ UNCHANGED <<prs, config, pos, total_slides_checked, qa_report,
                   slide_content_map, gagne_metrics, gagne_time_distribution,
                   pacing_data, current_section, active_funded_activity,
                   cadence_log, final_data, batchVars, remedyVars>>

(***************************************************************************)
(* AIEngine.analyze_batch: exemption filter, the three agents, the vector  *)
(* store, and the merge of the results.                                    *)
(*                                                                         *)
(* A call that can raise returns [raised, value]; a raised exception that  *)
(* no handler of the source catches leaves analyze_batch ("crashed").      *)
(***************************************************************************)
Returns(v) == [raised |-> FALSE, value |-> v]

Raises == [raised |-> TRUE, value |-> "exception"]

\* the comma-separated fields of exempt_specific_slides that are all digits
FieldInt == ("2" :> 2) @@ (" 3 " :> 3)

\* line 324
ParseExemptSpecific(specific_raw) ==
    {FieldInt[specific_raw[k]] :
        k \in {m \in 1..Len(specific_raw) : specific_raw[m] \in DOMAIN FieldInt}}

Placeholder(s_num) ==
    [slide_number |-> s_num, key_type |-> "int", clarity_score |-> "N/A",
     tone_audit |-> "Slide marked as Exempt in settings."]

\* a faulty variant of IsExemptSlide: the listed slides are not looked at
IsExemptSlide_ListIgnored(s_num, total, cfg) ==
    \/ cfg.exempt_first_slide /\ s_num = 1
    \/ cfg.exempt_last_slide /\ total > 0 /\ s_num = total

\* lines 328-330
IsExemptSlide(s_num, total, cfg) ==
    \/ cfg.exempt_first_slide /\ s_num = 1
    \/ cfg.exempt_last_slide /\ total > 0 /\ s_num = total
    \/ s_num \in ParseExemptSpecific(cfg.exempt_specific_slides)

_filter_exempt_slides(list, total, cfg) ==
    LET exempt(s_num) == IsExemptSlide(s_num, total, cfg)
        skipped == SelectSeq(list, exempt)
    IN  [active  |-> SelectSeq(list, LAMBDA s_num : ~exempt(s_num)),
         skipped |-> [k \in 1..Len(skipped) |-> Placeholder(skipped[k])]]

\* a text: what it says when it is plain prose, or the JSON it carries
\* (a list of items, or an object that may hold such a list), in a markdown
\* fence or not, with prose around it or not
Plain(says) ==
    [says |-> says, json |-> "invalid", items |-> <<>>, fenced |-> FALSE, prose |-> TRUE]

Json(kind, items, fenced, prose) ==
    [says |-> "json", json |-> kind, items |-> items, fenced |-> fenced, prose |-> prose]

NoText == Plain("unset")

\* what the provider does with one call
AgentOutcomes == {"no_client", "sdk_raises", "empty", "answers"}

\* a faulty variant of execute_agent: the SDK's exception is not caught
execute_agent_Uncaught(outcome, answer) ==
    CASE outcome = "no_client"  -> Returns(Plain("Error: Provider Missing or Failed to Init"))
      [] outcome = "sdk_raises" -> Raises
      [] outcome = "empty"      -> Returns(Plain(""))
      [] outcome = "answers"    -> Returns(answer)

\* execute_agent, lines 364-417
execute_agent(outcome, answer) ==
    CASE outcome = "no_client"  -> Returns(Plain("Error: Provider Missing or Failed to Init"))
      [] outcome = "sdk_raises" -> Returns(Plain("Agent Error"))
      [] outcome = "empty"      -> Returns(Plain(""))
      [] outcome = "answers"    -> Returns(answer)

\* what the vector store does with one query
DbOutcomes ==
    {"no_credentials", "embedding_fails", "request_raises", "query_fails",
     "no_matches", "matches"}

\* query_vector_db, lines 223-277
query_vector_db(query_text, outcome) ==
    CASE outcome = "no_credentials"  -> Returns(Plain("Standard Best Practice: Maintain clarity."))
      [] outcome = "embedding_fails" -> Returns(Plain("Vector DB Error: Embedding failed."))
      [] outcome = "request_raises"  -> Returns(Plain("Standard Best Practice."))
      [] outcome = "query_fails"     -> Returns(Plain("Vector DB Query Failed."))
      [] outcome = "no_matches"      -> Returns(Plain("No KB matches found."))
      [] outcome = "matches"         -> Returns(Plain("context"))

\* an entry of the list the rewrite agent answers with: an object whose
\* slide_number is an integer, a string, or absent, or an entry that is not
\* an object
AiItem(key_type, n) ==
    [slide_number |-> n, key_type |-> key_type, clarity_score |-> "7",
     tone_audit |-> "ok"]

AiItems ==
    {AiItem("int", n) : n \in 1..MaxBatch}
        \cup {AiItem("str", 2), AiItem("absent", 0), AiItem("not_object", 0)}

ItemLists ==
    {<<>>} \cup {<<x>> : x \in AiItems} \cup {<<x, y>> : x \in AiItems, y \in AiItems}

\* the answers of the rewrite agent
AiAnswers ==
    {Json("list", items, FALSE, FALSE) : items \in ItemLists}
        \cup {Json("list", items, TRUE, TRUE) : items \in ItemLists}
        \cup {Json("object", <<>>, FALSE, FALSE),
              Json("object", <<AiItem("int", 1)>>, TRUE, FALSE),
              Json("object", <<AiItem("int", 1)>>, FALSE, TRUE),
              Plain("I cannot help with that.")}

\* _clean_json, lines 419-441: the type of the value it returns and, for a
\* list, its entries
_clean_json(text) ==
    IF text.says = "" THEN [type |-> "object", items |-> <<>>]
    ELSE IF text.json = "invalid" THEN [type |-> "list", items |-> <<>>]
    ELSE IF text.json = "list" THEN [type |-> "list", items |-> text.items]
    ELSE IF text.prose /\ text.items # <<>> THEN [type |-> "list", items |-> text.items]
    ELSE [type |-> "object", items |-> <<>>]

\* the key list.sort compares: x.get('slide_number', 0)
SortKey(x) == IF x.key_type = "absent" THEN 0 ELSE x.slide_number

\* x.get fails on an entry that is not an object; a string does not compare
\* with an integer
SortRaises(list) ==
    \/ \E k \in 1..Len(list) : list[k].key_type = "not_object"
    \/ /\ \E k \in 1..Len(list) : list[k].key_type = "str"
       /\ \E k \in 1..Len(list) : list[k].key_type # "str"

RECURSIVE InsertSorted(_, _)
InsertSorted(sorted, x) ==
    IF sorted = <<>> THEN <<x>>
    ELSE IF SortKey(sorted[Len(sorted)]) <= SortKey(x) THEN Append(sorted, x)
    ELSE Append(InsertSorted(SubSeq(sorted, 1, Len(sorted) - 1), x), sorted[Len(sorted)])

\* list.sort(key=...) when no comparison raises: stable, by SortKey
RECURSIVE StableSort(_, _)
StableSort(list, k) ==
    IF k = 0 THEN <<>> ELSE InsertSorted(StableSort(list, k - 1), list[k])

\* the entries at the head of the list whose keys are of one type
RECURSIVE SameTypePrefix(_, _)
SameTypePrefix(list, k) ==
    IF k < Len(list) /\ (list[k + 1].key_type = "str") = (list[1].key_type = "str")
    THEN SameTypePrefix(list, k + 1) ELSE k

\* the lists a failed list.sort can leave behind.  The keys are computed
\* first, so a failing key leaves the list as it was.  A failing comparison
\* stops the insertion sort where it stands: some head of the list, within
\* the entries that compare with one another, is sorted and the rest is as
\* it was.
AfterFailedSort(list) ==
    IF \E k \in 1..Len(list) : list[k].key_type = "not_object" THEN {list}
    ELSE {StableSort(SubSeq(list, 1, j), j) \o SubSeq(list, j + 1, Len(list)) :
             j \in 0..SameTypePrefix(list, 1)}

\* lines 308-317: the results analyze_batch can return for a response
MergeResults(skipped, response) ==
    LET ai_results == _clean_json(response)
        final_results == IF ai_results.type = "list"
                         THEN skipped \o ai_results.items ELSE skipped
    IN  IF SortRaises(final_results) THEN AfterFailedSort(final_results)
        ELSE {StableSort(final_results, Len(final_results))}

Batches ==
    {list \in UNION {[1..n -> 1..MaxBatch] : n \in 0..MaxBatch} :
        \A i, j \in 1..Len(list) : i < j => list[i] < list[j]}

BrandConfigs ==
    [exempt_first_slide : BOOLEAN, exempt_last_slide : BOOLEAN,
     exempt_specific_slides : {<<>>, <<"2", "x">>}]

InitBatch ==
    /\ brand_config \in BrandConfigs
    /\ slides_list \in Batches
    /\ total_slide_count \in {0, MaxBatch}
    /\ bpc = "start"
    /\ active_slides = <<>>
    /\ skipped_results = <<>>
    /\ topic_summary = NoText
    /\ optimized_query = NoText
    /\ research_context = NoText
    /\ agent_calls = <<>>
    /\ db_calls = <<>>
    /\ returned = <<>>

\* a faulty variant of FilterSlides: the pipeline is entered also when no
\* slide is active
FilterSlides_AlwaysAsks ==
    /\ bpc = "start"
    /\ LET f == _filter_exempt_slides(slides_list, total_slide_count, brand_config)
       IN  IF slides_list = <<>>
           THEN /\ bpc' = "done"
                /\ returned' = <<>>
                /\ UNCHANGED <<active_slides, skipped_results>>
           ELSE /\ active_slides' = f.active
                /\ skipped_results' = f.skipped
                /\ bpc' = "agent1" /\ UNCHANGED returned
    /\ UNCHANGED <<brand_config, slides_list, total_slide_count, topic_summary,
                   optimized_query, research_context, agent_calls,
                   db_calls, analyzerVars, remedyVars>>

\* lines 280-283
FilterSlides ==
    /\ bpc = "start"
    /\ LET f == _filter_exempt_slides(slides_list, total_slide_count, brand_config)
       IN  IF slides_list = <<>>
           THEN /\ bpc' = "done"
                /\ returned' = <<>>
                /\ UNCHANGED <<active_slides, skipped_results>>
           ELSE /\ active_slides' = f.active
                /\ skipped_results' = f.skipped
                /\ IF f.active = <<>>
                   THEN bpc' = "done" /\ returned' = f.skipped
                   ELSE bpc' = "agent1" /\ UNCHANGED returned
    /\ UNCHANGED <<brand_config, slides_list, total_slide_count, topic_summary,
                   optimized_query, research_context, agent_calls,
                   db_calls, analyzerVars, remedyVars>>

\* lines 289-292: the manager reads the outline of the active slides
Agent1 ==
    /\ bpc = "agent1"
    /\ \E outcome \in AgentOutcomes :
          LET r == execute_agent(outcome, Plain("topic"))
          IN  IF r.raised
              THEN bpc' = "crashed" /\ UNCHANGED topic_summary
              ELSE bpc' = "agent2" /\ topic_summary' = r.value
    /\ agent_calls' = Append(agent_calls, [role |-> "AGENT_1", slides |-> active_slides])
    /\ UNCHANGED <<brand_config, slides_list, total_slide_count, active_slides,
                   skipped_results, optimized_query, research_context,
                   db_calls, returned, analyzerVars, remedyVars>>

\* lines 295-298: the researcher turns the topic into a query; the topic is
\* not read again
Agent2 ==
    /\ bpc = "agent2"
    /\ \E outcome \in AgentOutcomes :
          LET r == execute_agent(outcome, Plain("query"))
          IN  IF r.raised
              THEN bpc' = "crashed" /\ UNCHANGED optimized_query
              ELSE bpc' = "vectordb" /\ optimized_query' = r.value
    /\ agent_calls' = Append(agent_calls, [role |-> "AGENT_2", slides |-> <<>>])
    /\ topic_summary' = NoText
    /\ UNCHANGED <<brand_config, slides_list, total_slide_count, active_slides,
                   skipped_results, research_context, db_calls, returned,
                   analyzerVars, remedyVars>>

\* lines 300-301; the query is not read again
VectorDb ==
    /\ bpc = "vectordb"
    /\ \E outcome \in DbOutcomes :
          LET r == query_vector_db(optimized_query, outcome)
          IN  IF r.raised
              THEN bpc' = "crashed" /\ UNCHANGED research_context
              ELSE bpc' = "agent3" /\ research_context' = r.value
    /\ db_calls' = Append(db_calls, optimized_query.says)
    /\ optimized_query' = NoText
    /\ UNCHANGED <<brand_config, slides_list, total_slide_count, active_slides,
                   skipped_results, topic_summary, agent_calls, returned,
                   analyzerVars, remedyVars>>

\* lines 304-317: the executor rewrites the active slides, the results are
\* merged and the call returns (its locals end with it)
Agent3 ==
    /\ bpc = "agent3"
    /\ agent_calls' = Append(agent_calls, [role |-> "AGENT_3", slides |-> active_slides])
    /\ \E outcome \in AgentOutcomes, answer \in AiAnswers :
          LET r == execute_agent(outcome, answer)
          IN  IF r.raised
              THEN bpc' = "crashed" /\ UNCHANGED returned
              ELSE /\ bpc' = "done"
                   /\ returned' \in MergeResults(skipped_results, r.value)
    /\ research_context' = NoText
    /\ UNCHANGED <<brand_config, slides_list, total_slide_count, active_slides,
                   skipped_results, topic_summary, optimized_query, db_calls,
                   analyzerVars, remedyVars>>

(***************************************************************************)
(* The specifications.  Spec: one document is audited.  SpecBatch: one     *)
(* analyze_batch call.  SpecTwo: the same document is analysed by two      *)
(* analyzers whose steps interleave.                                       *)
(***************************************************************************)
NoBatch ==
    /\ brand_config = [exempt_first_slide |-> FALSE, exempt_last_slide |-> FALSE,
                       exempt_specific_slides |-> <<>>]
    /\ slides_list = <<>>
    /\ total_slide_count = 0
    /\ bpc = "idle"
    /\ active_slides = <<>>
    /\ skipped_results = <<>>
    /\ topic_summary = NoText
    /\ optimized_query = NoText
    /\ research_context = NoText
    /\ agent_calls = <<>>
    /\ db_calls = <<>>
    /\ returned = <<>>

\* no colour is being corrected
NoRemedy ==
    /\ fg_rgb = <<>> /\ bg_rgb = <<>> /\ required_ratio = 0 /\ step = 0
    /\ candidate_rgb = <<>> /\ iterations = 0 /\ rpc = "idle"
    /\ compliant_color = <<>>

Init ==
    /\ InitAnalyzers({1})
    /\ prs \in [{1} -> Decks]
    /\ config \in Configs
    /\ NoBatch
    /\ NoRemedy

Next ==
    \/ AnalyzeSlide(1)
    \/ CadenceBegin(1)
    \/ CadenceSlide(1)
    \/ CadenceEnd(1)
    \/ BuildReport(1)
    \/ RunAuditSlide(1)

Spec == Init /\ [][Next]_vars

InitOfBatch ==
    /\ InitAnalyzers({})
    /\ prs = <<>>
    /\ config = [exempt_first |-> TRUE, exempt_last |-> TRUE, exempt_specific |-> {}]
    /\ InitBatch
    /\ NoRemedy

NextBatch == FilterSlides \/ Agent1 \/ Agent2 \/ VectorDb \/ Agent3

SpecBatch == InitOfBatch /\ [][NextBatch]_vars

DecksTwo == UNION {[1..n -> Catalogue] : n \in 0..MaxSlidesTwo}

InitTwo ==
    /\ InitAnalyzers({1, 2})
    /\ prs \in [{1, 2} -> DecksTwo]
    /\ config \in Configs
    /\ NoBatch
    /\ NoRemedy

NextTwo ==
    \E a \in {1, 2} :
        \/ AnalyzeSlide(a)
        \/ CadenceBegin(a)
        \/ CadenceSlide(a)
        \/ CadenceEnd(a)
        \/ BuildReport(a)
        \/ RunAuditSlide(a)

SpecTwo == InitTwo /\ [][NextTwo]_vars

\* one analyzer on a deck of the case runs, no slide exempt
InitCases ==
    /\ InitAnalyzers({1})
    /\ prs \in [{1} -> CaseDecks]
    /\ config = [exempt_first |-> FALSE, exempt_last |-> FALSE, exempt_specific |-> {}]
    /\ NoBatch
    /\ NoRemedy

SpecCases == InitCases /\ [][Next]_vars

(***************************************************************************)
(* find_closest_compliant_color, utils.py 71-118.  The ratio is compared   *)
(* in tenths, the factor of a step is kept in hundredths; the direction    *)
(* "darken" is the step 95, "lighten" the step 105.                        *)
(***************************************************************************)
\* max_iter
max_iter == 50

\* one call, on any two of the colours and a required ratio of 3, 4.5, 7
\* or 21
InitRemedy ==
    /\ InitAnalyzers({})
    /\ prs = <<>>
    /\ config = [exempt_first |-> FALSE, exempt_last |-> FALSE, exempt_specific |-> {}]
    /\ NoBatch
    /\ fg_rgb \in {HexMap[h] : h \in DOMAIN HexMap} \cup {<<250, 250, 250>>}
    /\ bg_rgb \in {HexMap[h] : h \in DOMAIN HexMap} \cup {<<250, 250, 250>>}
    /\ required_ratio \in {30, 45, 70, 210}
    /\ step = 0 /\ candidate_rgb = <<>> /\ iterations = 0 /\ rpc = "start"
    /\ compliant_color = <<>>

\* lines 76-98: the colour passes as it is, or the direction is chosen
RemedyBegin ==
    /\ rpc = "start"
    /\ IF ~ContrastBelow(fg_rgb, bg_rgb, required_ratio)
       THEN /\ compliant_color' = fg_rgb
            /\ rpc' = "returned"
            /\ UNCHANGED <<step, candidate_rgb>>
       ELSE /\ step' = IF get_relative_luminance(bg_rgb) > get_relative_luminance(fg_rgb)
                       THEN 95 ELSE 105
            /\ candidate_rgb' = fg_rgb
            /\ rpc' = "loop"
            /\ UNCHANGED compliant_color
    /\ UNCHANGED <<fg_rgb, bg_rgb, required_ratio, iterations, analyzerVars, batchVars>>

\* lines 103-113: one round of the loop
RemedyStep ==
    /\ rpc = "loop"
    /\ iterations < max_iter
    /\ \E c \in {adjust_color_brightness(candidate_rgb, step)} :
          /\ candidate_rgb' = c
          /\ IF ~ContrastBelow(c, bg_rgb, required_ratio)
             THEN compliant_color' = c /\ rpc' = "returned"
             ELSE IF step = 95 /\ c[1] + c[2] + c[3] = 0
             THEN compliant_color' = BLACK_RGB_TUPLE /\ rpc' = "returned"
             ELSE IF step = 105 /\ c[1] + c[2] + c[3] >= 765
             THEN compliant_color' = WHITE_RGB_TUPLE /\ rpc' = "returned"
             ELSE UNCHANGED <<compliant_color, rpc>>
    /\ iterations' = iterations + 1
    /\ UNCHANGED <<fg_rgb, bg_rgb, required_ratio, step, analyzerVars, batchVars>>

\* a faulty variant of RemedyFallback: the last colour tried is returned
RemedyFallback_LastCandidate ==
    /\ rpc = "loop"
    /\ iterations = max_iter
    /\ compliant_color' = candidate_rgb
    /\ rpc' = "returned"
    /\ UNCHANGED <<fg_rgb, bg_rgb, required_ratio, step, candidate_rgb, iterations,
                   analyzerVars, batchVars>>

\* lines 115-116: the loop ran out
RemedyFallback ==
    /\ rpc = "loop"
    /\ iterations = max_iter
    /\ compliant_color' = IF get_relative_luminance(bg_rgb) > 5000
                          THEN BLACK_RGB_TUPLE ELSE WHITE_RGB_TUPLE
    /\ rpc' = "returned"
    /\ UNCHANGED <<fg_rgb, bg_rgb, required_ratio, step, candidate_rgb, iterations,
                   analyzerVars, batchVars>>

NextRemedy == RemedyBegin \/ RemedyStep \/ RemedyFallback

SpecRemedy == InitRemedy /\ [][NextRemedy]_vars

(***************************************************************************)
(* Properties of the pacing pass.                                          *)
(***************************************************************************)
RECURSIVE SumSeq(_, _)
SumSeq(seq, k) == IF k = 0 THEN 0 ELSE seq[k] + SumSeq(seq, k - 1)

\* the sum of one field over a sequence of records
SumField(seq, field) == SumSeq([k \in 1..Len(seq) |-> seq[k][field]], Len(seq))

\* slide j continues, without a time of its own, the labelled activity that
\* slide i funded, and so does every slide between them; no section began
\* after slide i
FundedRun(log, i, j) ==
    /\ i < j
    /\ log[i].explicit_time > 0
    /\ log[i].current_activity # <<>>
    /\ \A m \in (i + 1)..j :
          /\ log[m].explicit_time = 0
          /\ log[m].current_activity = log[i].current_activity
          /\ ~log[m].is_section_break

\* C1: a slide without explicit time whose activity label equals, ignoring
\* case, the label of an earlier slide with explicit time > 0 adds nothing to
\* the projected minutes of the running total and of the open section, when
\* all slides in between carry the same label and no time and no section
\* began after the funding slide; this holds for the second and later such
\* slides as for the first.
C1_FundedActivitySuppression ==
    [][LET log == cadence_log'[1]
           j   == Len(log)
       IN  (/\ j = Len(cadence_log[1]) + 1
            /\ \E i \in 1..(j - 1) : FundedRun(log, i, j))
           => /\ pacing_data'[1].total_projected_mins
                    = pacing_data[1].total_projected_mins
              /\ current_section'[1].projected = current_section[1].projected
              /\ log[j].slide_time = 0]_vars

\* two slides in a row continue a funded activity whose label is written in
\* another case on the funding slide
C1_Witness ==
    LET log == cadence_log[1]
    IN  \E i, j \in 1..Len(log) :
           /\ j >= i + 2
           /\ FundedRun(log, i, j)
           /\ prs[1][i] = SlideFunding
           /\ prs[1][j] = SlideImage
           /\ pacing_data[1].total_projected_mins = 10 * TimeUnit

\* C2: once the pacing pass has finished on a deck of at least one slide, the
\* open section is in the sections list, and the sections' planned minutes
\* sum to total_planned_mins and their projected minutes to
\* total_projected_mins, which are the sums of the slides' explicit times and
\* slide times.
C2_SectionTotalsConserved ==
    (pc[1] \in {"aggregate", "done", "audited"} /\ Len(prs[1]) >= 1)
    => LET sections == pacing_data[1].sections
           log      == cadence_log[1]
       IN  /\ sections # <<>>
           /\ sections[Len(sections)] = current_section[1]
           /\ SumField(sections, "planned")
                 = pacing_data[1].total_planned_mins
           /\ SumField(sections, "projected")
                 = pacing_data[1].total_projected_mins
           /\ pacing_data[1].total_planned_mins
                 = SumField(log, "explicit_time")
           /\ pacing_data[1].total_projected_mins
                 = SumField(log, "slide_time")
           /\ Len(log) = Len(prs[1])

\* the pass has finished with three sections, each with time planned or projected
C2_Witness ==
    /\ pc[1] = "aggregate"
    /\ Len(pacing_data[1].sections) = 3
    /\ pacing_data[1].total_planned_mins > 0
    /\ \A k \in 1..3 : pacing_data[1].sections[k].projected > 0

(***************************************************************************)
(* Properties of the report.                                               *)
(***************************************************************************)
\* slide k is exempt by the first-slide, last-slide or listed-index rule
ExemptByRule(k) ==
    \/ config.exempt_first /\ k = 1
    \/ config.exempt_last /\ k = Len(prs[1])
    \/ k \in config.exempt_specific

IssuesOf(issues, k) == SelectSeq(issues, LAMBDA i : i.slide = k)

\* C3: the report holds exactly one issue for each exempt slide, with result
\* EXEMPT; no check adds another issue for it.
C3_ExemptSlideOneIssue ==
    /\ \A k \in 1..total_slides_checked[1] :
          ExemptByRule(k)
          => /\ Len(IssuesOf(qa_report[1], k)) = 1
             /\ IssuesOf(qa_report[1], k)[1].result = "EXEMPT"
    /\ pc[1] \in {"done", "audited"}
       => \A k \in 1..Len(prs[1]) :
             ExemptByRule(k)
             => /\ Len(IssuesOf(final_data[1].detailed_issues, k)) = 1
                /\ IssuesOf(final_data[1].detailed_issues, k)[1].result = "EXEMPT"

\* the report is built; the first slide is exempt and its checks would have
\* reported several issues; the second is exempt by its index; a slide that
\* is not exempt has issues
C3_Witness ==
    /\ pc[1] = "done"
    /\ Len(prs[1]) = 3
    /\ config.exempt_first /\ ~config.exempt_last /\ config.exempt_specific = {2}
    /\ Len(SlideIssues(prs[1][1], 1, FALSE)) >= 2
    /\ Len(SlideIssues(prs[1][2], 2, FALSE)) >= 2
    /\ Len(IssuesOf(final_data[1].detailed_issues, 3)) >= 2

\* the slides with at least one FAIL issue of a contrast (WCAG) check
WcagFailing(issues) ==
    {issues[m].slide : m \in {k \in 1..Len(issues) :
        issues[k].result = "FAIL"
        /\ issues[k].check \in {"WCAG Text Contrast", "WCAG Graphic Contrast"}}}

\* C4: the wcag_compliance_rate of the report counts as failing only the
\* slides with a FAIL issue of a WCAG check: FAIL issues of font, alt-text
\* and other checks do not lower it.
C4_WcagRateIgnoresOtherFails ==
    (pc[1] \in {"done", "audited"} /\ total_slides_checked[1] > 0)
    => LET n    == total_slides_checked[1]
           pass == n - Cardinality(WcagFailing(final_data[1].detailed_issues))
           rate == final_data[1].summary.executive_metrics.wcag_compliance_rate
       IN  2 * (rate * n - pass * 1000) <= n /\ 2 * (pass * 1000 - rate * n) <= n

\* the slides with at least one FAIL issue
Failing(issues) ==
    {k \in 1..total_slides_checked[1] :
        \E m \in 1..Len(issues) : issues[m].slide = k /\ issues[m].result = "FAIL"}

\* C5: the compliance score is the share of the checked slides that have no
\* FAIL issue, in percent to one decimal; it does not depend on how many
\* FAIL issues a failing slide has and lies between 0 and 100.
C5_ScoreIsSlidePassRate ==
    pc[1] \in {"done", "audited"}
    => LET n     == total_slides_checked[1]
           pass  == n - Cardinality(Failing(final_data[1].detailed_issues))
           score == final_data[1].summary.executive_metrics.wcag_compliance_rate
       IN  /\ 0 <= score /\ score <= 1000
           /\ n > 0 => /\ 2 * (score * n - pass * 1000) <= n
                       /\ 2 * (pass * 1000 - score * n) <= n

\* three slides: one with four FAIL issues, one with one, one with none
C5_Witness ==
    /\ pc[1] = "done"
    /\ total_slides_checked[1] = 3
    /\ \E k \in 1..3 :
          Len(SelectSeq(final_data[1].detailed_issues,
                        LAMBDA i : i.slide = k /\ i.result = "FAIL")) = 4
    /\ Cardinality(Failing(final_data[1].detailed_issues)) = 2
    /\ final_data[1].summary.executive_metrics.wcag_compliance_rate = 333

(***************************************************************************)
(* Properties of analyze_batch.                                            *)
(***************************************************************************)
\* slide s_num of the batch is matched by the first-slide, last-slide or
\* listed-index rule of the brand configuration
MatchedByRule(s_num) ==
    \/ brand_config.exempt_first_slide /\ s_num = 1
    \/ brand_config.exempt_last_slide /\ s_num = total_slide_count
    \/ \E k \in 1..Len(brand_config.exempt_specific_slides) :
          /\ brand_config.exempt_specific_slides[k] \in DOMAIN FieldInt
          /\ FieldInt[brand_config.exempt_specific_slides[k]] = s_num

InBatch(s_num) == \E k \in 1..Len(slides_list) : slides_list[k] = s_num

\* C6: no slide matched by an exemption rule is among the slides handed to
\* any of the three agents, and each such slide of the batch has exactly one
\* placeholder in the returned list.
C6_ExemptSlidesNeverReachAgents ==
    /\ \A c \in 1..Len(agent_calls) :
          \A k \in 1..Len(agent_calls[c].slides) :
             ~MatchedByRule(agent_calls[c].slides[k])
    /\ bpc = "done"
       => \A s_num \in 1..MaxBatch :
             (InBatch(s_num) /\ MatchedByRule(s_num))
             => Cardinality({k \in 1..Len(returned) :
                                returned[k] = Placeholder(s_num)}) = 1

\* a batch of three slides, the first and the listed second exempt, the
\* third rewritten by the agent, whose answer also names an exempt slide
C6_Witness ==
    /\ bpc = "done"
    /\ slides_list = <<1, 2, 3>>
    /\ Len(agent_calls) = 3
    /\ agent_calls[1].slides = <<3>>
    /\ agent_calls[3].slides = <<3>>
    /\ returned = <<Placeholder(1), AiItem("int", 1), Placeholder(2), AiItem("int", 3)>>

\* C7: the list analyze_batch returns is in non-decreasing slide_number
\* order, whatever the batch and whatever the rewrite agent answers.
C7_ReturnedSortedBySlideNumber ==
    bpc = "done"
    => \A i, j \in 1..Len(returned) :
          (i < j /\ returned[i].key_type = "int" /\ returned[j].key_type = "int")
          => returned[i].slide_number <= returned[j].slide_number

\* C8: no failure of a stage leaves analyze_batch as an exception; every
\* stage after a failed one runs, reading the value the failed one fell back
\* to; the returned list holds every exempt placeholder.
C8_StageFailuresContained ==
    /\ bpc # "crashed"
    /\ bpc = "agent2" => topic_summary # NoText
    /\ bpc = "vectordb" => optimized_query # NoText
    /\ bpc = "agent3" => research_context # NoText
    /\ bpc = "done"
       => /\ \A k \in 1..Len(skipped_results) :
                \E m \in 1..Len(returned) : returned[m] = skipped_results[k]
          /\ active_slides # <<>>
             => /\ [c \in 1..Len(agent_calls) |-> agent_calls[c].role]
                      = <<"AGENT_1", "AGENT_2", "AGENT_3">>
                /\ Len(db_calls) = 1

\* the research-query agent failed, the store was asked with the text the
\* failure left, the rewrite agent ran, and the placeholder came back
C8_Witness ==
    /\ bpc = "done"
    /\ db_calls = <<"Agent Error">>
    /\ Len(agent_calls) = 3
    /\ skipped_results # <<>>
    /\ returned = skipped_results

(***************************************************************************)
(* Properties of two runs, and of the classifier.                          *)
(***************************************************************************)
\* C9: two runs of run_analysis on the same document under the same
\* configuration return equal reports.
C9_ReportDeterministic ==
    (prs[1] = prs[2] /\ pc[1] \in {"done", "audited"} /\ pc[2] \in {"done", "audited"})
    => final_data[1] = final_data[2]

\* C10: a slide whose title holds a quiz or assessment keyword has "Assess
\* Performance" among its events, whatever its notes say.
C10_QuizTitleAlwaysAssess ==
    \A j \in 1..Len(cadence_log[1]) :
       TitleIsAssessment(LowerLine(slide_content_map[1][j].title))
       => "Assess Performance" \in cadence_log[1][j].detected_events

\* a quiz slide whose notes name Present Content under a strict header, and
\* a quiz slide without notes
C10_Witness ==
    \E j, k \in 1..Len(cadence_log[1]) :
       /\ slide_content_map[1][j].title = <<"Knowledge", "Check">>
       /\ slide_content_map[1][j].notes # <<>>
       /\ IsStrictHeader(slide_content_map[1][j].notes[1])
       /\ cadence_log[1][j].detected_events = {"Assess Performance", "Present Content"}
       /\ slide_content_map[1][k].title = <<"Knowledge", "Check">>
       /\ slide_content_map[1][k].notes = <<>>
       /\ cadence_log[1][k].detected_events = {"Assess Performance"}

(***************************************************************************)
(* Properties of the classifier's choice of line, and of the time a slide  *)
(* is given.                                                               *)
(***************************************************************************)
\* the line begins with "Instructional Activity:" (or "Activity:") or with
\* "Gagné Event:", in any case and with or without the accent
BeginsWithStrictHeader(line) ==
    LET l  == LowerLine(line)
        at(k) == \/ Len(l) >= k /\ l[k] = "activity:"
                 \/ Len(l) >= k + 1 /\ l[k] \in {"gagne", "gagné"} /\ l[k + 1] = "event:"
    IN  at(1) \/ (Len(l) >= 1 /\ l[1] = "instructional" /\ at(2))

\* the events the title alone contributes
FromTitle(title) ==
    IF TitleIsAssessment(LowerLine(title)) THEN {"Assess Performance"} ELSE {}

\* C11: when the notes have a line that begins with a strict header, the
\* events that come from the notes are those of the first such line and of
\* no other line; without such a line they are those of one short line
\* (under 100 characters); the notes "Instructional Activity: Elicit
\* Performance - group exercise" under a neutral title give exactly Elicit
\* Performance.
C11_StrictHeaderPreferred ==
    \A j \in 1..Len(cadence_log[1]) :
        LET notes   == slide_content_map[1][j].notes
            title   == slide_content_map[1][j].title
            events  == cadence_log[1][j].detected_events
            headers == {k \in 1..Len(notes) : BeginsWithStrictHeader(notes[k])}
            of(k)   == {e \in GagneEvents : LineMatchesEvent(LowerLine(notes[k]), e)}
        IN  /\ headers # {} => events = FromTitle(title) \cup of(Min(headers))
            /\ headers = {} =>
                  \/ events = FromTitle(title)
                  \/ \E k \in 1..Len(notes) :
                        /\ LineLen(notes[k]) < 100
                        /\ events = FromTitle(title) \cup of(k)
            /\ (notes = << <<"Instructional", "Activity:", "Elicit", "Performance",
                             "-", "group", "exercise">> >> /\ FromTitle(title) = {})
                  => events = {"Elicit Performance"}

\* the words on the screen of a slide, the title apart (the title is kept
\* in a field of its own)
WordsOnScreen(slide) ==
    SumSeq([k \in 1..Len(slide.shapes) |->
               IF k = TitleIndex(slide) THEN 0 ELSE Len(ShapeText(slide.shapes[k]))],
           Len(slide.shapes))

HeaderMinutes(notes) ==
    LET flat  == Flatten(LowerText(notes), Len(notes))
        heads == {k \in 1..Len(flat) : flat[k] \in {"time:", "duration:"}}
    IN  IF heads = {} THEN 0
        ELSE LET first == Min(heads) + 1
                 stops == {m \in first..Len(flat) : flat[m] = "\n"}
                 last  == IF stops = {} THEN Len(flat) ELSE Min(stops) - 1
                 value(k) ==
                     IF LeadingInt(flat[k]) < 0 THEN 0
                     ELSE IF k < last /\ flat[k + 1] \in {"hour", "hours"}
                          THEN 60 * LeadingInt(flat[k])
                     ELSE LeadingInt(flat[k])
             IN  SumSeq([k \in 1..(last - first + 1) |-> value(first + k - 1)],
                        last - first + 1)

\* C13: the explicit time the pacing pass uses for a slide is the value of
\* the notes' "Time:" or "Duration:" header in minutes, units honoured and
\* summed: "Time: 1 hour 30 minutes" is 90 and a bare "Time: 2" is 2.
C13_ExplicitTimeHonoursUnits ==
    \A j \in 1..Len(cadence_log[1]) :
        cadence_log[1][j].explicit_time = HeaderMinutes(prs[1][j].notes)

(***************************************************************************)
(* The background of a shape against the reference.                        *)
(***************************************************************************)
\* a solid fill that is shown and is not translucent
OpaqueSolid(fill) ==
    fill.type = "SOLID" /\ fill.visible # "False" /\ fill.alpha # "0.5"

\* the fill a shape lends to what lies over it: a table the TABLE sentinel,
\* a solid fill that is not translucent its colour, a picture or texture
\* the IMAGE sentinel, anything else nothing
ResolvableFill(c) ==
    IF c.shape_type = "TABLE" THEN BG_IS_TABLE
    ELSE IF c.fill.type = "SOLID" /\ c.fill.alpha # "0.5"
         THEN rgb_pptx_to_tuple(c.fill.rgb)
    ELSE IF c.fill.type \in {"PICTURE", "TEXTURE"} THEN BG_IS_IMAGE
    ELSE <<>>

\* the reference: the shape at index t of the slide takes its own opaque
\* solid fill, IMAGE for a picture or texture fill, else the fill of the
\* latest earlier shape whose box overlaps and that has a fill, else white
RefBackground(slide, t) ==
    LET target == slide.shapes[t]
        below  == {k \in 1..(t - 1) :
                      /\ shapes_overlap(target, slide.shapes[k])
                      /\ ResolvableFill(slide.shapes[k]) # <<>>}
    IN  IF OpaqueSolid(target.fill) THEN rgb_pptx_to_tuple(target.fill.rgb)
        ELSE IF target.fill.type \in {"PICTURE", "TEXTURE"} THEN BG_IS_IMAGE
        ELSE IF below # {} THEN ResolvableFill(slide.shapes[Max(below)])
        ELSE WHITE_RGB_TUPLE

\* C14: for every shape of every slide the analyzer has walked, the
\* background _determine_real_background gives is the reference's: the
\* shape's own opaque solid fill, IMAGE for a picture or texture fill, else
\* the fill of the latest earlier overlapping shape that has one, else white.
C14_BackgroundAgreesWithReference ==
    \A j \in 1..(pos[1] - 1) :
        j <= Len(prs[1]) /\ pc[1] = "analyze"
        => \A t \in 1..Len(prs[1][j].shapes) :
               _determine_real_background(prs[1][j].shapes[t], prs[1][j])
                   = RefBackground(prs[1][j], t)

\* the same over the shapes whose fill and colour objects carry the visible
\* and alpha attributes
C14_AgreesWhereAttributesExist ==
    \A j \in 1..(pos[1] - 1) :
        (/\ j <= Len(prs[1]) /\ pc[1] = "analyze"
         /\ \A t \in 1..Len(prs[1][j].shapes) :
               /\ prs[1][j].shapes[t].fill.visible # "AttributeError"
               /\ prs[1][j].shapes[t].fill.alpha # "AttributeError")
        => \A t \in 1..Len(prs[1][j].shapes) :
               _determine_real_background(prs[1][j].shapes[t], prs[1][j])
                   = RefBackground(prs[1][j], t)

(***************************************************************************)
(* Two analyzers at work on two documents, against each one alone.         *)
(***************************************************************************)
\* the issues of the first k slides of a deck, walked alone
RECURSIVE SoloIssues(_, _, _)
SoloIssues(deck, cfg, k) ==
    IF k = 0 THEN <<>>
    ELSE SoloIssues(deck, cfg, k - 1)
            \o SlideIssues(deck[k], k, k \in ExemptIndices(Len(deck), cfg))

\* the round of the pacing pass on slide k of a deck, walked alone: the
\* funded activity it starts from is the one the round before left
RECURSIVE SoloRound(_, _)
SoloRound(deck, k) ==
    SlideRound(SlideContent(deck[k], k),
               IF k = 1 THEN <<>> ELSE SoloRound(deck, k - 1).funded_after,
               BUFFER_ACTIVITY_SLIDE)

SoloLog(deck) == [k \in 1..Len(deck) |-> SoloRound(deck, k)]

\* the slides that open a section: the first one, and every boundary
SectionStarts(log) ==
    {k \in 1..Len(log) : k = 1 \/ log[k].is_section_break}

\* the sections of a pass, from its rounds: one from each opening slide to
\* the slide before the next, named by the boundary's title, the first
\* "Introduction" unless slide 1 is a boundary
SoloSections(deck) ==
    LET log    == SoloLog(deck)
        starts == SectionStarts(log)
        nth(i) == CHOOSE k \in starts : Cardinality({m \in starts : m < k}) = i - 1
        stop(i) == IF i = Cardinality(starts) THEN Len(log) ELSE nth(i + 1) - 1
        part(i) == SubSeq(log, nth(i), stop(i))
        title(k) == SlideContent(deck[k], k).title
    IN  [i \in 1..Cardinality(starts) |->
            [name |-> IF ~log[nth(i)].is_section_break THEN <<"Introduction">>
                      ELSE IF title(nth(i)) # <<>> THEN title(nth(i))
                      ELSE <<"Section", ToString(nth(i))>>,
             planned |-> SumField(part(i), "explicit_time"),
             estimated |-> 0,
             projected |-> SumField(part(i), "slide_time"),
             slide_count |-> Len(part(i))]]

\* C15: when two analyzers walk two documents, their steps interleaved in
\* any order, each ends with the issues, the pacing totals, the sections
\* and the Gagne counts it has when it walks its document alone.
C15_PerRunIsolation ==
    \A a \in {1, 2} :
        pc[a] \in {"aggregate", "done", "audited"}
        => LET log == SoloLog(prs[a])
           IN  /\ qa_report[a] = SoloIssues(prs[a], config, Len(prs[a]))
               /\ cadence_log[a] = log
               /\ pacing_data[a].total_planned_mins = SumField(log, "explicit_time")
               /\ pacing_data[a].total_projected_mins = SumField(log, "slide_time")
               /\ pacing_data[a].sections = SoloSections(prs[a])
               /\ \A e \in GagneBuckets :
                     gagne_metrics[a][e] =
                        Cardinality({k \in 1..Len(log) :
                                        \/ e \in log[k].detected_events
                                        \/ e = "Other" /\ log[k].detected_events = {}})

\* the analyzer of the slide that continues the lab has finished its pass,
\* estimating the slide, after the other analyzer funded the lab on its own
\* document and before that one finished
C15_Witness ==
    /\ prs[1] = <<SlideFunding>> /\ prs[2] = <<SlideImage>>
    /\ pc[1] = "cadence" /\ pos[1] = 2 /\ active_funded_activity[1] = <<"lab">>
    /\ pc[2] = "aggregate"
    /\ cadence_log[2][1].current_activity = <<"lab">>
    /\ cadence_log[2][1].slide_time >= HalfMinute

(***************************************************************************)
(* The colour find_closest_compliant_color returns.                        *)
(***************************************************************************)
\* C16: whatever the two colours and the required ratio (up to 21), the
\* colour returned has at least the required contrast against the
\* background, or is pure black or pure white, and the loop made at most
\* 50 rounds.
C16_CompliantOrBlackWhite ==
    /\ iterations <= max_iter
    /\ rpc = "returned"
       => \/ ~ContrastBelow(compliant_color, bg_rgb, required_ratio)
          \/ compliant_color \in {BLACK_RGB_TUPLE, WHITE_RGB_TUPLE}

\* the loop ran its 50 rounds on a colour that cannot reach the ratio and
\* the call fell back to black, short of the ratio itself
C16_Witness ==
    /\ rpc = "returned"
    /\ iterations = max_iter
    /\ compliant_color = BLACK_RGB_TUPLE
    /\ candidate_rgb # BLACK_RGB_TUPLE
    /\ ContrastBelow(compliant_color, bg_rgb, required_ratio)

\* a darkened colour that reaches the ratio after several rounds is returned
C16_Converged ==
    /\ rpc = "returned"
    /\ iterations > 1
    /\ compliant_color = candidate_rgb
    /\ compliant_color \notin {BLACK_RGB_TUPLE, WHITE_RGB_TUPLE, fg_rgb}
    /\ ~ContrastBelow(compliant_color, bg_rgb, required_ratio)

(***************************************************************************)
(* Properties of the funded activity along a deck.                         *)
(***************************************************************************)
\* the funded activity a round starts from: none on the first slide and on
\* a section boundary, else what the round before left
FundedBefore(log, j) ==
    IF j = 1 \/ log[j].is_section_break THEN <<>> ELSE log[j - 1].funded_after

\* the activity label of the notes, lowercased: the words after the first
\* "activity:" on its line
LabelOf(notes) ==
    LET flat  == Flatten(LowerText(notes), Len(notes))
        heads == {k \in 1..Len(flat) : flat[k] = "activity:"}
    IN  IF heads = {} THEN <<>>
        ELSE LET stops == {m \in (Min(heads) + 1)..Len(flat) : flat[m] = "\n"}
             IN  SubSeq(flat, Min(heads) + 1,
                        IF stops = {} THEN Len(flat) ELSE Min(stops) - 1)

\* C17: a slide without a time of its own is projected at 0 only on account
\* of a funding slide that is the most recent section boundary or comes
\* after it; a section boundary without a time of its own is estimated at
\* half a minute or more, whatever was funded before it.
C17_FundingStaysInSection ==
    LET log == cadence_log[1]
    IN  \A j \in 1..Len(log) :
           log[j].explicit_time = 0
           => /\ log[j].is_section_break => log[j].slide_time >= HalfMinute
              /\ log[j].slide_time = 0
                 => \E i \in 1..(j - 1) :
                       /\ log[i].explicit_time > 0
                       /\ log[i].current_activity = log[j].current_activity
                       /\ \A m \in (i + 1)..j : ~log[m].is_section_break

\* the lab is funded, a section header continues the lab without a time and
\* is estimated, and so is the slide after it that continues the lab
C17_Witness ==
    LET log == cadence_log[1]
    IN  /\ Len(log) = 3
        /\ log[1].explicit_time = 10 /\ log[1].current_activity = <<"lab">>
        /\ log[2].is_section_break /\ log[2].explicit_time = 0
        /\ log[2].current_activity = <<"lab">> /\ log[2].slide_time >= HalfMinute
        /\ log[3].current_activity = <<"lab">> /\ log[3].explicit_time = 0
        /\ log[3].slide_time >= HalfMinute

\* C18: after a slide whose time was estimated (no time of its own, its
\* label empty or not the funded one) no activity is funded; the slide
\* after it is estimated at half a minute or more unless it states a time,
\* as the third slide of lab (Time: 10), another slide, lab.
C18_EstimateClearsFunding ==
    LET log == cadence_log[1]
    IN  \A j \in 1..Len(log) :
           (/\ log[j].explicit_time = 0
            /\ \/ log[j].current_activity = <<>>
               \/ log[j].current_activity # FundedBefore(log, j))
           => /\ log[j].slide_time >= HalfMinute
              /\ log[j].funded_after = <<>>
              /\ j = Len(log) => active_funded_activity[1] = <<>>
              /\ (j < Len(log) /\ log[j + 1].explicit_time = 0)
                 => log[j + 1].slide_time >= HalfMinute

\* lab with ten minutes, a slide of another activity or of none without a
\* time, and lab again without a time: the third slide is estimated
C18_Witness ==
    LET log == cadence_log[1]
    IN  /\ Len(log) = 3
        /\ log[1].explicit_time = 10 /\ log[1].current_activity = <<"lab">>
        /\ log[2].explicit_time = 0 /\ log[2].current_activity = <<"intro">>
        /\ ~log[2].is_section_break /\ ~log[3].is_section_break
        /\ log[3].explicit_time = 0 /\ log[3].current_activity = <<"lab">>
        /\ log[3].slide_time >= HalfMinute
        /\ active_funded_activity[1] = <<>>

\* C19: a slide with a time of its own above 0 is projected at exactly that
\* time, also when it continues the funded activity, and after it the
\* funded activity is the slide's own label in lower case.
C19_ExplicitTimeUsedAndFunds ==
    LET log == cadence_log[1]
    IN  \A j \in 1..Len(log) :
           log[j].explicit_time > 0
           => /\ log[j].slide_time = log[j].explicit_time * TimeUnit
              /\ log[j].funded_after = LabelOf(prs[1][j].notes)
              /\ j = Len(log) => active_funded_activity[1] = LabelOf(prs[1][j].notes)

\* a slide that states ten minutes for the lab right after a slide that
\* funded the lab: it is projected at ten minutes
C19_Witness ==
    LET log == cadence_log[1]
    IN  \E j \in 2..Len(log) :
           /\ log[j - 1].funded_after = <<"lab">>
           /\ ~log[j].is_section_break
           /\ log[j].current_activity = <<"lab">>
           /\ log[j].explicit_time = 10
           /\ log[j].slide_time = 10 * TimeUnit
           /\ prs[1][j].notes[1] = <<"Instructional", "Activity:", "lab">>

(***************************************************************************)
(* The sections list against the boundaries of the deck.                   *)
(***************************************************************************)
Boundaries(log) == {k \in 1..Len(log) : log[k].is_section_break}

\* C20 as stated: after the run on a deck of at least one slide the
\* sections list has one entry more than the deck has boundary slides.
C20_OneMoreThanBoundaries ==
    (pc[1] \in {"aggregate", "done", "audited"} /\ cadence_log[1] # <<>>)
    => Len(pacing_data[1].sections) = Cardinality(Boundaries(cadence_log[1])) + 1

\* C20, amended: a boundary pushes the current section unless that section
\* has no slide yet, and opens a section that counts the boundary slide as
\* its first; after the run the sections are, in document order, one for
\* the slides before the first boundary (if there are any) and one for each
\* boundary, each of at least one slide: one entry more than the boundary
\* slides unless the first slide is a boundary or the deck is empty, when
\* there are as many entries as boundary slides.
C20_SectionsFollowBoundaries ==
    LET log      == cadence_log[1]
        sections == pacing_data[1].sections
    IN  /\ (pc[1] = "cadence" /\ log # <<>> /\ log[Len(log)].is_section_break)
           => /\ current_section[1].slide_count = 1
              /\ Len(sections) = Cardinality(SectionStarts(log)) - 1
        /\ pc[1] \in {"aggregate", "done", "audited"}
           => /\ Len(sections) =
                    IF log = <<>> THEN 0
                    ELSE Cardinality(Boundaries(log) \ {1}) + 1
              /\ \A i \in 1..Len(sections) : sections[i].slide_count >= 1
              /\ sections = SoloSections(prs[1])

\* a deck that begins with a boundary slide and has another: two boundary
\* slides, two sections, the first slide counted in the first of them
C20_Witness ==
    LET log == cadence_log[1]
    IN  /\ pc[1] = "aggregate"
        /\ Len(log) = 3
        /\ Boundaries(log) = {1, 3}
        /\ Len(pacing_data[1].sections) = 2
        /\ pacing_data[1].sections[1].slide_count = 2
        /\ pacing_data[1].sections[1].name # <<"Introduction">>

(***************************************************************************)
(* The activity buffer, and the split of a slide's time over its events.   *)
(***************************************************************************)
\* C21: with the buffer of config.py (5 minutes), a slide without a time of
\* its own that does not continue the funded activity, that is classified
\* as Provide Guidance, Elicit Performance or Assess Performance and that
\* has an activity label, is projected at
\* max(max(0.5, words / 130), buffer) minutes.
C21_ActivityBufferFloor ==
    LET log == cadence_log[1]
    IN  \A j \in 1..Len(log) :
           LET slide == prs[1][j]
               words == WordCount(slide.notes, Len(slide.notes)) + WordsOnScreen(slide)
           IN  (/\ log[j].explicit_time = 0
                /\ LabelOf(slide.notes) # <<>>
                /\ LabelOf(slide.notes) # FundedBefore(log, j)
                /\ log[j].detected_events
                      \cap {"Provide Guidance", "Elicit Performance", "Assess Performance"} # {})
               => /\ pacing_data[1].used_buffer = 5 * TimeUnit
                  /\ log[j].slide_time = Max({Max({HalfMinute, words}), 5 * TimeUnit})

\* a labelled Elicit Performance slide of few words is projected at the five
\* minutes of the buffer
C21_Witness ==
    /\ Len(cadence_log[1]) = 1
    /\ cadence_log[1][1].detected_events = {"Elicit Performance"}
    /\ cadence_log[1][1].explicit_time = 0
    /\ LabelOf(prs[1][1].notes) # <<>>
    /\ cadence_log[1][1].word_count < 5 * TimeUnit
    /\ cadence_log[1][1].slide_time = 5 * TimeUnit

\* a labelled Elicit Performance slide of more than 650 words is projected
\* at its reading time
C21_LongSlide ==
    /\ Len(cadence_log[1]) = 1
    /\ "Elicit Performance" \in cadence_log[1][1].detected_events
    /\ LabelOf(prs[1][1].notes) # <<>>
    /\ cadence_log[1][1].slide_time > 5 * TimeUnit

\* the weight of an event in the split of a slide's time
WeightOf(e) ==
    IF e \in {"Elicit Performance", "Assess Performance"} THEN 10
    ELSE IF e \in {"Present Content", "Provide Feedback"} THEN 3
    ELSE 1

RECURSIVE WeightSum(_)
WeightSum(events) ==
    IF events = {} THEN 0
    ELSE LET e == CHOOSE x \in events : TRUE
         IN  WeightOf(e) + WeightSum(events \ {e})

\* the time event e is due from the first k rounds, as a fraction: from
\* each slide that matched e, WeightOf(e) / WeightSum of its events of the
\* slide's time
RECURSIVE DueShare(_, _, _)
DueShare(log, e, k) ==
    IF k = 0 THEN Frac(0, 1)
    ELSE IF e \in log[k].detected_events
         THEN FracAdd(DueShare(log, e, k - 1),
                      Frac(WeightOf(e) * log[k].slide_time,
                           WeightSum(log[k].detected_events)))
         ELSE DueShare(log, e, k - 1)

\* the sum of the per-event totals over a set of events
RECURSIVE TotalOver(_, _)
TotalOver(dist, events) ==
    IF events = {} THEN Frac(0, 1)
    ELSE LET e == CHOOSE x \in events : TRUE
         IN  FracAdd(dist[e], TotalOver(dist, events \ {e}))

\* the time of the slides that matched at least one event
MatchedTime(log) ==
    SumSeq([k \in 1..Len(log) |->
               IF log[k].detected_events = {} THEN 0 ELSE log[k].slide_time],
           Len(log))

\* C22: each event's time total is the sum, over the slides that matched
\* it, of weight(e) / sum of the slide's weights of the slide's projected
\* time (weights 10, 3 and 1); the totals of all events together are the
\* projected time of the slides that matched at least one event.
C22_WeightedSplitConservesTime ==
    LET log  == cadence_log[1]
        dist == gagne_time_distribution[1]
    IN  pc[1] \in {"cadence", "aggregate", "done", "audited"}
        => /\ \A e \in GagneEvents :
                 dist[e].n * DueShare(log, e, Len(log)).d
                    = DueShare(log, e, Len(log)).n * dist[e].d
           /\ TotalOver(dist, GagneBuckets).n
                 = MatchedTime(log) * TotalOver(dist, GagneBuckets).d

\* a deck with a slide that matched two events of weights 10 and 3 and was
\* given time, and a slide that matched none
C22_Witness ==
    LET log == cadence_log[1]
    IN  /\ pc[1] = "aggregate"
        /\ \E j, k \in 1..Len(log) :
              /\ log[j].detected_events = {"Assess Performance", "Present Content"}
              /\ log[j].slide_time > 0
              /\ log[k].detected_events = {} /\ log[k].slide_time > 0
        /\ gagne_time_distribution[1]["Present Content"].n > 0
        /\ gagne_time_distribution[1]["Assess Performance"].n
              > 3 * gagne_time_distribution[1]["Present Content"].n

(***************************************************************************)
(* Properties of the issues of a slide.                                    *)
(***************************************************************************)
\* the shapes of a slide that bear a given name and have text over what the
\* analyzer takes for an image or a table
TextOverImage(slide, name) ==
    {t \in 1..Len(slide.shapes) :
        /\ slide.shapes[t].name = name
        /\ ShapeText(slide.shapes[t]) # <<>>
        /\ _determine_real_background(slide.shapes[t], slide)
              \in {BG_IS_IMAGE, BG_IS_TABLE}}

\* the requests for a manual review of the contrast of the shapes of that
\* name on slide j
ManualReviews(issues, j, name) ==
    {k \in 1..Len(issues) :
        /\ issues[k].slide = j
        /\ issues[k].check = "WCAG Text Contrast"
        /\ issues[k].result = "MANUAL REVIEW"
        /\ issues[k].shape_name = name}

\* C23: on every slide, the shapes whose text is over an image or a table
\* get at most one "WCAG Text Contrast" MANUAL REVIEW issue each, however
\* many runs of text they have.
C23_OneManualReviewPerShape ==
    \A j \in 1..Len(prs[1]) :
        \A t \in 1..Len(prs[1][j].shapes) :
            LET name == prs[1][j].shapes[t].name
            IN  Cardinality(ManualReviews(qa_report[1], j, name))
                   <= Cardinality(TextOverImage(prs[1][j], name))

\* the text box of two runs over a picture-filled shape has been walked and
\* has its one request for a manual review
C23_Witness ==
    \E j \in 1..(pos[1] - 1) :
        /\ pc[1] = "analyze" /\ j <= Len(prs[1])
        /\ prs[1][j] = SlideImage
        /\ Len(prs[1][j].shapes[4].runs) = 2
        /\ TextOverImage(prs[1][j], "TextBox") = {4}
        /\ Cardinality(ManualReviews(qa_report[1], j, "TextBox")) = 1

\* C24: on a slide with two or more title placeholders, no "Font Rules"
\* issue is recorded for a title placeholder that has another one above it.
C24_OnlyTopmostTitleChecked ==
    \A j \in 1..(pos[1] - 1) :
        (pc[1] = "analyze" /\ j <= Len(prs[1]))
        => \A t \in 1..Len(prs[1][j].shapes) :
              LET shapes == prs[1][j].shapes
              IN  (/\ TitleLike(shapes[t])
                   /\ \E u \in 1..Len(shapes) :
                         TitleLike(shapes[u]) /\ shapes[u].top < shapes[t].top)
                  => \A k \in 1..Len(qa_report[1]) :
                        ~(/\ qa_report[1][k].slide = j
                          /\ qa_report[1][k].check = "Font Rules"
                          /\ qa_report[1][k].shape_name = shapes[t].name)

(***************************************************************************)
(* Properties of the sections list and of the issue list along a run.      *)
(***************************************************************************)
\* C25: once the pacing pass is under way, a step never changes an entry
\* that is in the sections list: a round of the loop and the final flush
\* only append to the list.
C25_ClosedSectionsFrozen ==
    [][pc[1] \in {"cadence", "aggregate", "done"}
       => /\ Len(pacing_data'[1].sections) >= Len(pacing_data[1].sections)
          /\ \A i \in 1..Len(pacing_data[1].sections) :
                pacing_data'[1].sections[i] = pacing_data[1].sections[i]]_vars

\* a section is in the list and the open section has taken two slides with
\* time since: the closed one kept its own totals
C25_Witness ==
    /\ pc[1] = "cadence"
    /\ Len(cadence_log[1]) = 3
    /\ Len(pacing_data[1].sections) = 1
    /\ current_section[1].slide_count = 2
    /\ current_section[1].projected > 0
    /\ pacing_data[1].sections[1].projected = cadence_log[1][1].slide_time
    /\ pacing_data[1].sections[1].slide_count = 1

\* C26: after the run every slide, exempt or not, is counted in a section:
\* the slide counts of the sections sum to total_slides_checked, the pass
\* has a round for each slide, and the planned and projected totals are the
\* sums over all of them.
C26_EverySlideInASection ==
    pc[1] \in {"aggregate", "done", "audited"}
    => /\ SumField(pacing_data[1].sections, "slide_count") = total_slides_checked[1]
       /\ total_slides_checked[1] = Len(prs[1])
       /\ \A k \in 1..Len(prs[1]) :
             /\ k <= Len(cadence_log[1])
             /\ cadence_log[1][k].slide_number = k
       /\ pacing_data[1].total_planned_mins
             = SumSeq([k \in 1..Len(prs[1]) |-> cadence_log[1][k].explicit_time],
                      Len(prs[1]))

\* the first slide is exempt and states ten minutes, which are in the
\* planned total; its only issue is the EXEMPT placeholder
C26_Witness ==
    /\ pc[1] = "done"
    /\ config.exempt_first
    /\ Len(prs[1]) = 2
    /\ prs[1][1] = SlideFunding
    /\ IssuesOf(qa_report[1], 1)[1].result = "EXEMPT"
    /\ pacing_data[1].total_planned_mins >= 10
    /\ SumField(pacing_data[1].sections, "slide_count") = 2

\* the notes hold no "Activity:" header, in any case of letters
NoActivityHeader(notes) ==
    \A k \in 1..Len(notes) : \A m \in 1..Len(notes[k]) : Lower(notes[k][m]) # "activity:"

\* C27: a slide whose notes hold no "Activity:" label is given time above
\* 0: its explicit time, or an estimate of half a minute or more, also
\* right after a slide that stated a time and had no label either.
C27_UnlabelledNeverSuppressed ==
    LET log == cadence_log[1]
    IN  \A j \in 1..Len(log) :
           NoActivityHeader(prs[1][j].notes)
           => /\ log[j].slide_time > 0
              /\ log[j].explicit_time > 0
                 => log[j].slide_time = log[j].explicit_time * TimeUnit
              /\ log[j].explicit_time = 0 => log[j].slide_time >= HalfMinute

\* a slide that states two minutes and has no label, then a slide without
\* notes: no activity is funded, and the second slide is estimated
C27_Witness ==
    LET log == cadence_log[1]
    IN  \E j \in 2..Len(log) :
           /\ log[j - 1].explicit_time = 2
           /\ NoActivityHeader(prs[1][j - 1].notes)
           /\ log[j - 1].funded_after = <<>>
           /\ ~log[j].is_section_break
           /\ prs[1][j].notes = <<>>
           /\ log[j].slide_time >= HalfMinute

\* the issues are in the order of their slides
OrderedBySlide(issues) ==
    \A k, m \in 1..Len(issues) : k < m => issues[k].slide <= issues[m].slide

\* C28: no step of a run removes or alters a recorded issue (the list only
\* grows at its end), the list is in the order of the slides at all times,
\* and so are the detailed issues of the final report, which are that list.
C28_IssuesAppendOnlyAndOrdered ==
    /\ [][/\ Len(qa_report'[1]) >= Len(qa_report[1])
          /\ SubSeq(qa_report'[1], 1, Len(qa_report[1])) = qa_report[1]]_vars
    /\ [](/\ OrderedBySlide(qa_report[1])
          /\ pc[1] \in {"done", "audited"}
             => /\ final_data[1].detailed_issues = qa_report[1]
                /\ OrderedBySlide(final_data[1].detailed_issues))

\* a report with two issues of one slide followed by an issue of a later one
C28_Witness ==
    /\ pc[1] = "done"
    /\ \E k \in 1..(Len(final_data[1].detailed_issues) - 2) :
          /\ final_data[1].detailed_issues[k].slide
                = final_data[1].detailed_issues[k + 1].slide
          /\ final_data[1].detailed_issues[k + 1].slide
                < final_data[1].detailed_issues[k + 2].slide

(***************************************************************************)
(* Properties of the Gagne counts.                                         *)
(***************************************************************************)
\* the events a slide signals, by its title or by the line of its notes
\* that is classified
TitleSignals(slide, e) ==
    e = "Assess Performance" /\ TitleIsAssessment(LowerLine(slide.title))

NotesSignal(slide, e) ==
    /\ TargetLine(slide.notes) # <<>>
    /\ LineMatchesEvent(TargetLine(slide.notes), e)

SignalsOf(slide) ==
    {e \in GagneEvents : TitleSignals(slide, e) \/ NotesSignal(slide, e)}

\* C29: the step of the pacing pass that takes a slide raises the count of
\* each event the slide signals by exactly one, also when the title and the
\* notes both signal it, and gives that event one weight in the split of
\* the slide's time; it raises no other count, but for "Other", which it
\* raises by exactly one when the slide signals no event.
C29_EachBucketOncePerSlide ==
    [][Len(cadence_log'[1]) = Len(cadence_log[1]) + 1
       => LET n     == Len(cadence_log'[1])
              slide == slide_content_map[1][n]
              sig   == SignalsOf(slide)
              t     == cadence_log'[1][n].slide_time
          IN  /\ \A e \in GagneBuckets :
                    gagne_metrics'[1][e] - gagne_metrics[1][e]
                       = IF e \in sig \/ (e = "Other" /\ sig = {}) THEN 1 ELSE 0
              /\ \A e \in sig :
                    LET due == FracAdd(gagne_time_distribution[1][e],
                                       Frac(WeightOf(e) * t, WeightSum(sig)))
                    IN  gagne_time_distribution'[1][e].n * due.d
                           = due.n * gagne_time_distribution'[1][e].d
              /\ \A e \in GagneBuckets \ sig :
                    gagne_time_distribution'[1][e] = gagne_time_distribution[1][e]]_vars

\* a first slide whose title and whose notes both signal Assess Performance,
\* counted once
C29_Witness ==
    /\ Len(cadence_log[1]) = 1
    /\ TitleSignals(slide_content_map[1][1], "Assess Performance")
    /\ NotesSignal(slide_content_map[1][1], "Assess Performance")
    /\ gagne_metrics[1]["Assess Performance"] = 1
    /\ gagne_metrics[1]["Other"] = 0

\* a first slide that signals no event, counted as "Other" once
C29_OtherOnce ==
    /\ Len(cadence_log[1]) = 1
    /\ SignalsOf(slide_content_map[1][1]) = {}
    /\ gagne_metrics[1]["Other"] = 1

(***************************************************************************)
(* Properties of a batch without active slides.                            *)
(***************************************************************************)
\* every slide of the batch is matched by an exemption rule (so is the
\* empty batch)
AllExempt == \A k \in 1..Len(slides_list) : MatchedByRule(slides_list[k])

\* C30: when every slide of the batch is exempt, or the batch is empty, no
\* agent is called and the knowledge store is not asked at any point of
\* analyze_batch, and the call returns the placeholders of the slides of
\* the batch, one each, and nothing else.
C30_NoCallsWhenAllExempt ==
    (bpc # "idle" /\ AllExempt)
    => /\ agent_calls = <<>>
       /\ db_calls = <<>>
       /\ bpc \in {"start", "done"}
       /\ bpc = "done"
          => returned = [k \in 1..Len(slides_list) |-> Placeholder(slides_list[k])]

\* a batch of two slides, the first and the listed second exempt: the call
\* is over, nothing was asked, and the two placeholders came back
C30_Witness ==
    /\ bpc = "done"
    /\ slides_list = <<1, 2>>
    /\ AllExempt
    /\ agent_calls = <<>>
    /\ db_calls = <<>>
    /\ returned = <<Placeholder(1), Placeholder(2)>>

\* the empty batch: the call is over and returned the empty list
C30_EmptyBatch ==
    /\ bpc = "done"
    /\ slides_list = <<>>
    /\ agent_calls = <<>>
    /\ returned = <<>>

====
